---- MODULE Spec2Model ----
(***************************************************************************)
(* Model of the EPUB -> XTC/XTCH converter: line wrapping and height       *)
(* estimation (text_renderer.py), pagination with chapter tracking         *)
(* (pagination.py) and the page rendering loop (converter.py).             *)
(*                                                                         *)
(* A Python str is modelled as a sequence of one-character strings, an     *)
(* Optional[x] as a sequence of length 0 (None) or 1.                      *)
(***************************************************************************)
EXTENDS Integers, Sequences, FiniteSets, TLC

---------------------------------------------------------------------------
(* config.py *)

DISPLAY_WIDTH == 480

DISPLAY_HEIGHT == 800

PARAGRAPH_SPACING == 16

MIN_LINES_TOGETHER == 2

MARGINS_top == 20

MARGINS_bottom == 40

MARGINS_left == 16

MARGINS_right == 16

DEFAULT_FONT_SIZE == 34

\* the base font sizes the renderer is built with: the default of --font-size
FontSizes == {DEFAULT_FONT_SIZE}

\* int(x * 1.4): for the base size 34 and its heading sizes the truncated
\* float product equals (x * 14) \div 10.
LineHeightOf(font_size) == (font_size * 14) \div 10

\* HEADING_SIZE_MULTIPLIERS, in hundredths
HEADING_SIZE_MULTIPLIERS ==
    [level \in 1..6 |->
        CASE level = 1 -> 180
          [] level = 2 -> 150
          [] level = 3 -> 130
          [] level = 4 -> 115
          [] level = 5 -> 100
          [] level = 6 -> 90]

\* {level: int(base_size * mult)}; exact in integers for the base size 34
get_heading_sizes(base_size) ==
    [level \in 1..6 |-> (base_size * HEADING_SIZE_MULTIPLIERS[level]) \div 100]

---------------------------------------------------------------------------
(* Optional values and strings *)

None == <<>>

Some(x) == <<x>>

\* Python truthiness of an Optional[str]: None and "" are false
Truthy(opt) == opt # None /\ Len(opt[1]) > 0

IsSpace(c) == c \in {" ", "\n", "\t"}

\* str.split(): the maximal runs of non-whitespace characters, in order:
\* the first word at or after position i, then the words after it
RECURSIVE SplitFrom(_, _)
SplitFrom(text, i) ==
    IF \A j \in i..Len(text) : IsSpace(text[j]) THEN <<>>
    ELSE LET s == CHOOSE j \in i..Len(text) :
                      ~IsSpace(text[j]) /\ \A k \in i..(j - 1) : IsSpace(text[k])
             e == CHOOSE j \in s..Len(text) :
                      /\ \A k \in s..j : ~IsSpace(text[k])
                      /\ (j = Len(text) \/ IsSpace(text[j + 1]))
         IN  <<SubSeq(text, s, e)>> \o SplitFrom(text, e + 1)

split(text) == SplitFrom(text, 1)

\* " ".join(words)
RECURSIVE join(_)
join(words) ==
    IF words = <<>> THEN <<>>
    ELSE IF Len(words) = 1 THEN words[1]
    ELSE words[1] \o <<" ">> \o join(Tail(words))

---------------------------------------------------------------------------
(* text_renderer.py *)

\* The font files given on the command line: regular and bold, no italics
font_family ==
    [regular |-> "regular", bold |-> "bold", italic |-> "", bold_italic |-> ""]

\* FontFamily.get_path: the font file for a style, with fallbacks
get_path(family, bold, italic) ==
    IF bold /\ italic
    THEN IF family.bold_italic # "" THEN family.bold_italic
         ELSE IF family.bold # "" THEN family.bold
         ELSE IF family.italic # "" THEN family.italic
         ELSE family.regular
    ELSE IF bold
    THEN IF family.bold # "" THEN family.bold ELSE family.regular
    ELSE IF italic
    THEN IF family.italic # "" THEN family.italic ELSE family.regular
    ELSE family.regular

\* TextRenderer.get_font: a font is its file and its pixel size
get_font(size, bold, italic) ==
    [path |-> get_path(font_family, bold, italic), size |-> size]

\* TextRenderer._get_font_size_for_style
get_font_size_for_style(style, base_font_size) ==
    IF style.is_heading /\ style.heading_level \in 1..6
    THEN get_heading_sizes(base_font_size)[style.heading_level]
    ELSE base_font_size

\* TextRenderer.get_font_for_style
get_font_for_style(style, base_font_size) ==
    get_font(IF style.is_heading /\ style.heading_level \in 1..6
             THEN get_heading_sizes(base_font_size)[style.heading_level]
             ELSE base_font_size,
             style.bold, style.italic)

\* Advance of one glyph.  The rasteriser (PIL getbbox) is an external
\* collaborator; it is modelled as a deterministic additive measure: an em
\* for "M", half an em for other letters, a quarter for "i" and blanks, and
\* a bold face that is wider by a sixteenth of an em.
GlyphWidth(c, font) ==
    (CASE c = "M" -> font.size
       [] c = "i" -> font.size \div 4
       [] IsSpace(c) -> font.size \div 4
       [] OTHER -> font.size \div 2)
    + (IF font.path = "bold" THEN font.size \div 16 ELSE 0)

RECURSIVE SumWidths(_, _, _)
SumWidths(chars, text, font) ==
    IF chars = {} THEN 0
    ELSE LET c == CHOOSE x \in chars : TRUE
         IN  GlyphWidth(c, font)
                 * Cardinality({i \in 1..Len(text) : text[i] = c})
             + SumWidths(chars \ {c}, text, font)

\* TextRenderer.measure_text: the width of the text's bounding box, the sum
\* of the advances of its characters
measure_text(text, font) ==
    SumWidths({text[i] : i \in 1..Len(text)}, text, font)

\* wrap_text, lines 116-127: break one over-long word character by character
RECURSIVE BreakChars(_, _, _, _, _, _)
BreakChars(chars, j, lines, current_chars, font, max_width) ==
    IF j > Len(chars)
    THEN [lines |-> lines, current_chars |-> current_chars]
    ELSE LET test == Append(current_chars, chars[j])
         IN  IF measure_text(test, font) <= max_width
             THEN BreakChars(chars, j + 1, lines, test, font, max_width)
             ELSE BreakChars(chars, j + 1,
                             IF current_chars # <<>>
                             THEN Append(lines, current_chars) ELSE lines,
                             <<chars[j]>>, font, max_width)

\* the loop body without the breaking of over-long words (lines 111-127)
WrapWordNoBreak(acc, word, font, max_width) ==
    LET test_line == join(Append(acc.current_line, word))
    IN  IF measure_text(test_line, font) <= max_width
        THEN [lines |-> acc.lines,
              current_line |-> Append(acc.current_line, word)]
        ELSE [lines |-> IF acc.current_line # <<>>
                        THEN Append(acc.lines, join(acc.current_line))
                        ELSE acc.lines,
              current_line |-> <<word>>]

\* wrap_text, lines 101-127: one iteration of the loop over the words
WrapWord(acc, word, font, max_width) ==
    LET test_line == join(Append(acc.current_line, word))
    IN  IF measure_text(test_line, font) <= max_width
        THEN [lines |-> acc.lines,
              current_line |-> Append(acc.current_line, word)]
        ELSE LET flushed == IF acc.current_line # <<>>
                            THEN Append(acc.lines, join(acc.current_line))
                            ELSE acc.lines
             IN  IF measure_text(word, font) > max_width
                 THEN LET popped ==
                              IF flushed # <<>> /\ flushed[Len(flushed)] = word
                              THEN SubSeq(flushed, 1, Len(flushed) - 1)
                              ELSE flushed
                          br == BreakChars(word, 1, popped, <<>>, font, max_width)
                      IN  [lines |-> br.lines,
                           current_line |->
                               IF br.current_chars # <<>>
                               THEN <<br.current_chars>> ELSE <<>>]
                 ELSE [lines |-> flushed, current_line |-> <<word>>]

\* wrap_text, line 100: the loop over the words.  Each iteration's result
\* is computed (the test on `next`) before the next iteration starts.
RECURSIVE WrapWords(_, _, _, _, _)
WrapWords(words, i, acc, font, max_width) ==
    IF i > Len(words) THEN acc
    ELSE LET next == WrapWord(acc, words[i], font, max_width)
         IN  IF Len(next.lines) >= 0
             THEN WrapWords(words, i + 1, next, font, max_width)
             ELSE acc

\* TextRenderer.wrap_text
wrap_text(text, font, max_width) ==
    IF text = <<>> THEN <<>>
    ELSE LET words == split(text)
         IN  IF words = <<>> THEN <<>>
             ELSE LET acc == WrapWords(words, 1,
                                       [lines |-> <<>>, current_line |-> <<>>],
                                       font, max_width)
                  IN  IF acc.current_line # <<>>
                      THEN Append(acc.lines, join(acc.current_line))
                      ELSE acc.lines

\* estimate_block_height, lines 142-145: the block wrapped to the width the
\* indent leaves
estimate_lines(block, content_width, base_font_size) ==
    LET font == get_font_for_style(block.style, base_font_size)
        available_width == content_width - block.style.indent
    IN  wrap_text(block.text, font, available_width)

\* TextRenderer.estimate_block_height
estimate_block_height(block, content_width, base_font_size) ==
    LET lines == estimate_lines(block, content_width, base_font_size)
        font_size == get_font_size_for_style(block.style, base_font_size)
        line_height == LineHeightOf(font_size)
    IN  Len(lines) * line_height + PARAGRAPH_SPACING

---------------------------------------------------------------------------
(* epub_parser.py: the blocks HTMLContentParser emits.  emit_block drops    *)
(* empty text and normalises whitespace, so a block's text is a non-empty   *)
(* list of words separated by single blanks.                                *)

\* TextStyle(): the defaults
DefaultStyle ==
    [font_size |-> 20, bold |-> FALSE, italic |-> FALSE,
     is_heading |-> FALSE, heading_level |-> 0, indent |-> 0]

\* HTMLContentParser.HEADING_SIZES
HEADING_SIZES ==
    [level \in 1..6 |->
        CASE level = 1 -> 32
          [] level = 2 -> 28
          [] level = 3 -> 24
          [] level = 4 -> 22
          [] level = 5 -> 20
          [] level = 6 -> 18]

\* the style pushed by handle_starttag for <h1> .. <h6>
HeadingStyle(level) ==
    [DefaultStyle EXCEPT !.font_size = HEADING_SIZES[level], !.bold = TRUE,
                         !.is_heading = TRUE, !.heading_level = level]

\* the word w, n times, separated by single blanks
RepWords(w, n) == join([i \in 1..n |-> w])

\* <h1>A</h1>
BlockH1 ==
    [text |-> <<"A">>, style |-> HeadingStyle(1), block_type |-> "heading1"]

\* <h2><p>B</p></h2>: a paragraph emitted under a level-2 heading style
BlockH2 ==
    [text |-> <<"B">>, style |-> HeadingStyle(2), block_type |-> "paragraph"]

\* <h3>c c</h3>
BlockH3 ==
    [text |-> <<"c", " ", "c">>, style |-> HeadingStyle(3),
     block_type |-> "heading3"]

\* <p>a i</p>
BlockP ==
    [text |-> <<"a", " ", "i">>, style |-> DefaultStyle,
     block_type |-> "paragraph"]

\* <ul><li>MMMMMMi MMMMMMi ...</li></ul>: eight words; two of them fit the
\* content width but not the width the list indent leaves, so the item
\* takes eight lines, more than half a page
BlockLI ==
    [text |-> RepWords(<<"M", "M", "M", "M", "M", "M", "i">>, 8),
     style |-> [DefaultStyle EXCEPT !.indent = 20],
     block_type |-> "list_item"]

\* <p>MMMMMMMMM MMMMMMMMM ...</p>: sixteen words, one per line, taller than
\* a page
BlockGiant ==
    [text |-> RepWords(<<"M", "M", "M", "M", "M", "M", "M", "M", "M">>,
                       16),
     style |-> DefaultStyle, block_type |-> "paragraph"]

BlockPool == {BlockH1, BlockH2, BlockH3, BlockP, BlockLI, BlockGiant}

\* Longest block stream
MaxBlocks == 4

BlockStreams == UNION {[1..n -> BlockPool] : n \in 0..MaxBlocks}

---------------------------------------------------------------------------
(* pagination.py *)

\* Paginator.__init__
content_height == DISPLAY_HEIGHT - MARGINS_top - MARGINS_bottom

content_width == DISPLAY_WIDTH - MARGINS_left - MARGINS_right

\* Paginator._is_chapter_heading
is_chapter_heading(block) ==
    \/ block.block_type \in {"heading1", "heading2"}
    \/ (block.style.is_heading /\ block.style.heading_level <= 2)

\* Paginator._estimate_block_height
paginator_estimate_block_height(block, base_font_size) ==
    estimate_block_height(block, content_width, base_font_size)

\* PageContent(...) as built at lines 106-111, 126-131 and 144-149 from the
\* locals L of paginate
NewPageContent(L) ==
    [blocks |-> L.current_page_blocks,
     page_number |-> L.page_number,
     is_chapter_start |-> (L.page_number = L.current_chapter_start),
     chapter_title |-> IF L.page_number = L.current_chapter_start
                       THEN L.current_chapter ELSE None]

\* Faulty variant of EmitPage: the page number is not advanced
EmitPageNoAdvance(L) ==
    [L EXCEPT !.pages = Append(@, NewPageContent(L)),
              !.current_page_blocks = <<>>,
              !.current_y = 0]

\* pages.append(...); page_number += 1; current_page_blocks = []; current_y = 0
EmitPage(L) ==
    [L EXCEPT !.pages = Append(@, NewPageContent(L)),
              !.page_number = @ + 1,
              !.current_page_blocks = <<>>,
              !.current_y = 0]

\* Faulty variant of EndChapter: the chapter is closed even when it started
\* on the current page
EndChapterAlways(L) ==
    IF Truthy(L.current_chapter)
    THEN [L EXCEPT !.chapter_mappings =
                Append(@, [title |-> L.current_chapter[1],
                           start_page |-> L.current_chapter_start,
                           end_page |-> L.page_number - 1])]
    ELSE L

\* lines 94-101: end the current chapter
EndChapter(L) ==
    IF Truthy(L.current_chapter) /\ L.current_chapter_start < L.page_number
    THEN [L EXCEPT !.chapter_mappings =
                Append(@, [title |-> L.current_chapter[1],
                           start_page |-> L.current_chapter_start,
                           end_page |-> L.page_number - 1])]
    ELSE L

\* lines 104-115: emit the current page if it has content
EmitIfContent(L) ==
    IF L.current_page_blocks # <<>> THEN EmitPage(L) ELSE L

\* lines 118-119: start the new chapter
StartChapter(L, block) ==
    [L EXCEPT !.current_chapter = Some(block.text),
              !.current_chapter_start = L.page_number]

\* Faulty variant of ChapterBreak: the current page is not emitted
ChapterBreakNoFlush(L, block) ==
    IF is_chapter_heading(block)
    THEN StartChapter(EndChapter(L), block)
    ELSE L

\* lines 92-119: the chapter break
ChapterBreak(L, block) ==
    IF is_chapter_heading(block)
    THEN StartChapter(EmitIfContent(EndChapter(L)), block)
    ELSE L

\* Faulty variant of FitCheck: the full page is reset without being emitted
FitCheckDrop(L, block_height) ==
    IF L.current_y + block_height > content_height
    THEN [L EXCEPT !.current_page_blocks = <<>>, !.current_y = 0]
    ELSE L

\* Faulty variant of FitCheck: the height of the new block is not counted
FitCheckNoHeight(L, block_height) ==
    IF L.current_y > content_height
    THEN EmitIfContent(L)
    ELSE L

\* lines 122-135: start a new page when the block does not fit
FitCheck(L, block_height) ==
    IF L.current_y + block_height > content_height
    THEN EmitIfContent(L)
    ELSE L

\* lines 138-139: add the block to the current page
AddBlock(L, block, block_height) ==
    [L EXCEPT !.current_page_blocks = Append(@, block),
              !.current_y = @ + block_height]

\* lines 88-139: the body of the loop over the blocks
LoopBody(L, block, base_font_size) ==
    LET block_height == paginator_estimate_block_height(block, base_font_size)
    IN  AddBlock(FitCheck(ChapterBreak(L, block), block_height),
                 block, block_height)

\* Faulty variant of CloseFinalChapter: end_page as in EndChapter
CloseFinalChapterOffByOne(L) ==
    IF Truthy(L.current_chapter)
    THEN [L EXCEPT !.chapter_mappings =
                Append(@, [title |-> L.current_chapter[1],
                           start_page |-> L.current_chapter_start,
                           end_page |-> L.page_number - 1])]
    ELSE L

\* lines 153-160: close the final chapter
CloseFinalChapter(L) ==
    IF Truthy(L.current_chapter)
    THEN [L EXCEPT !.chapter_mappings =
                Append(@, [title |-> L.current_chapter[1],
                           start_page |-> L.current_chapter_start,
                           end_page |-> L.page_number])]
    ELSE L

\* lines 142-160: after the loop.  The final page is appended without
\* advancing page_number.
AfterLoop(L) ==
    CloseFinalChapter(
        IF L.current_page_blocks # <<>>
        THEN [L EXCEPT !.pages = Append(@, NewPageContent(L))]
        ELSE L)

\* PaginationResult(pages, chapters, total_pages=len(pages))
PaginationResult(L) ==
    [pages |-> L.pages, chapters |-> L.chapter_mappings,
     total_pages |-> Len(L.pages)]

---------------------------------------------------------------------------
(* text_renderer.py: render_page *)

\* lines 177-180: one draw.text per line, y advancing by line_height
RECURSIVE DrawLines(_, _, _, _, _, _)
DrawLines(lines, k, x, y, line_height, draws) ==
    IF k > Len(lines) THEN [y |-> y, draws |-> draws]
    ELSE DrawLines(lines, k + 1, x, y + line_height, line_height,
                   Append(draws, [x |-> x, y |-> y, line |-> lines[k]]))

\* Faulty variant of RenderBlock: the text is wrapped to the full content
\* width, the indent not subtracted
RenderBlockNoIndent(block, y, draws, base_font_size) ==
    LET font == get_font_for_style(block.style, base_font_size)
        page_content_width == DISPLAY_WIDTH - MARGINS_left - MARGINS_right
        lines == wrap_text(block.text, font, page_content_width)
        font_size == get_font_size_for_style(block.style, base_font_size)
        line_height == LineHeightOf(font_size)
        drawn == DrawLines(lines, 1, MARGINS_left + block.style.indent, y,
                           line_height, draws)
    IN  [y |-> drawn.y + PARAGRAPH_SPACING, draws |-> drawn.draws]

\* lines 170-182: one block of the page
RenderBlock(block, y, draws, base_font_size) ==
    LET font == get_font_for_style(block.style, base_font_size)
        page_content_width == DISPLAY_WIDTH - MARGINS_left - MARGINS_right
        available_width == page_content_width - block.style.indent
        lines == wrap_text(block.text, font, available_width)
        font_size == get_font_size_for_style(block.style, base_font_size)
        line_height == LineHeightOf(font_size)
        drawn == DrawLines(lines, 1, MARGINS_left + block.style.indent, y,
                           line_height, draws)
    IN  [y |-> drawn.y + PARAGRAPH_SPACING, draws |-> drawn.draws]

RECURSIVE RenderBlocks(_, _, _, _, _)
RenderBlocks(blocks, k, y, draws, base_font_size) ==
    IF k > Len(blocks) THEN [y |-> y, draws |-> draws]
    ELSE LET r == RenderBlock(blocks[k], y, draws, base_font_size)
         IN  RenderBlocks(blocks, k + 1, r.y, r.draws, base_font_size)

\* TextRenderer.render_page: the text drawn and the final pen position
render_page(blocks, page_no, total_pages, base_font_size) ==
    LET r == RenderBlocks(blocks, 1, MARGINS_top, <<>>, base_font_size)
    IN  [page_number |-> page_no, total_pages |-> total_pages,
         y |-> r.y, draws |-> r.draws]

---------------------------------------------------------------------------
(* config.py: XTCFormatConstants.  A bytes object is a sequence of          *)
(* integers in 0..255.                                                      *)

XTG_MARK == 4674648
XTH_MARK == 4740184
XTC_MARK == 4412504
XTCH_MARK == 1212372056
XTC_HEADER_SIZE == 56
PAGE_TABLE_ENTRY_SIZE == 16
TITLE_MAX_SIZE == 128

---------------------------------------------------------------------------
(* struct: little-endian packing of unsigned fields *)

\* one unsigned field of `size` bytes, least significant byte first
RECURSIVE PackField(_, _)
PackField(value, size) ==
    IF size = 0 THEN <<>>
    ELSE <<value % 256>> \o PackField(value \div 256, size - 1)

\* struct.pack("<...", values): the fields in order, no alignment
RECURSIVE pack(_, _)
pack(sizes, values) ==
    IF sizes = <<>> THEN <<>>
    ELSE PackField(values[1], sizes[1]) \o pack(Tail(sizes), Tail(values))

\* the unsigned value of a little-endian field
RECURSIVE UnpackField(_)
UnpackField(field) ==
    IF field = <<>> THEN 0
    ELSE field[1] + 256 * UnpackField(Tail(field))

\* struct.unpack("<...", data): the fields of the given sizes, in order
RECURSIVE unpack(_, _)
unpack(sizes, data) ==
    IF sizes = <<>> THEN <<>>
    ELSE <<UnpackField(SubSeq(data, 1, sizes[1]))>>
         \o unpack(Tail(sizes), SubSeq(data, sizes[1] + 1, Len(data)))

\* data[:n]
Slice(data, n) == SubSeq(data, 1, IF n < Len(data) THEN n ELSE Len(data))

---------------------------------------------------------------------------
(* xtc_format.py: the page encoders.  An image is its width, its height    *)
(* and its 8-bit samples pixels[y][x], rows and columns counted from 1.    *)

\* "<IHHBBIQ": mark, width, height, colorMode, compression, dataSize, md5
PageHeaderFormat == <<4, 2, 2, 1, 1, 4, 8>>

encode_xtg_header(width, height, data_size) ==
    pack(PageHeaderFormat, <<XTG_MARK, width, height, 0, 0, data_size, 0>>)

encode_xth_header(width, height, data_size) ==
    pack(PageHeaderFormat, <<XTH_MARK, width, height, 0, 0, data_size, 0>>)

\* eight bits with the last one in the least significant place
packbits_little_endian(bits) ==
    bits[8] * 128 + bits[7] * 64 + bits[6] * 32 + bits[5] * 16
    + bits[4] * 8 + bits[3] * 4 + bits[2] * 2 + bits[1]

\* np.packbits(..., bitorder="big") on a group of eight bits
packbits(bits) ==
    bits[1] * 128 + bits[2] * 64 + bits[3] * 32 + bits[4] * 16
    + bits[5] * 8 + bits[6] * 4 + bits[7] * 2 + bits[8]

\* gray.point(lambda x: 255 if x >= 128 else 0, "1"), as the 0/1 array
Threshold(image) ==
    [y \in 1..image.height |->
        [x \in 1..image.width |-> IF image.pixels[y][x] >= 128 THEN 1 ELSE 0]]

\* encode_xtg_page, lines 101-105: the rows padded with zeros to a multiple
\* of eight columns
PadColumns(pixels, width, height) ==
    LET padded_width == ((width + 7) \div 8) * 8
    IN  [y \in 1..height |->
            [x \in 1..padded_width |->
                IF x <= width THEN pixels[y][x] ELSE 0]]

\* encode_xtg_page, lines 108-112: reshape(height, -1, 8), packbits along the
\* last axis, flatten
PackRows(padded, height, bytes_per_row) ==
    [k \in 1..(height * bytes_per_row) |->
        LET y == ((k - 1) \div bytes_per_row) + 1
            b == (k - 1) % bytes_per_row
        IN  packbits([i \in 1..8 |-> padded[y][8 * b + i]])]

\* the size with the bytes of a row rounded down
XtgDataSizeFloor(width, height) == (width \div 8) * height

\* encode_xtg_page, line 115: the size a page's XTG data is declared to have
XtgDataSize(width, height) == ((width + 7) \div 8) * height

encode_xtg_page(image) ==
    LET width == image.width
        height == image.height
        pixels == Threshold(image)
        padded == PadColumns(pixels, width, height)
        data == PackRows(padded, height, (width + 7) \div 8)
        data_size == XtgDataSize(width, height)
    IN  encode_xtg_header(width, height, data_size) \o Slice(data, data_size)

\* quantize_to_4_levels, lines 141-145 with a first threshold that leaves
\* out the sample 42
QuantizeSampleExclusive(v) ==
    LET o1 == IF v < 42 THEN 3 ELSE 0
        o2 == IF v > 42 /\ v <= 127 THEN 2 ELSE o1
        o3 == IF v > 127 /\ v <= 212 THEN 1 ELSE o2
    IN  IF v > 212 THEN 0 ELSE o3

\* quantize_to_4_levels, lines 141-145, on one sample: the output starts at
\* zero and the four masked assignments are applied in order
QuantizeSample(v) ==
    LET o1 == IF v <= 42 THEN 3 ELSE 0
        o2 == IF v > 42 /\ v <= 127 THEN 2 ELSE o1
        o3 == IF v > 127 /\ v <= 212 THEN 1 ELSE o2
    IN  IF v > 212 THEN 0 ELSE o3

quantize_to_4_levels(image) ==
    [y \in 1..image.height |->
        [x \in 1..image.width |-> QuantizeSample(image.pixels[y][x])]]

\* encode_xth_page, lines 166-170: the rows padded with zero rows to a
\* multiple of eight
PadRows(quantized, width, height) ==
    LET padded_height == ((height + 7) \div 8) * 8
    IN  [y \in 1..padded_height |->
            [x \in 1..width |-> IF y <= height THEN quantized[y][x] ELSE 0]]

\* the columns kept in their order
NoFlip(a, width) == a

\* np.fliplr: the columns of every row reversed
fliplr(a, width) ==
    [y \in DOMAIN a |-> [x \in 1..width |-> a[y][width + 1 - x]]]

\* encode_xth_page, lines 181-187: reshape(bytes_per_column, 8, width),
\* transpose(2, 0, 1), packbits along the last axis, flatten: one byte per
\* column and group of eight rows, column after column
PackColumns(bits, width, bytes_per_column) ==
    [k \in 1..(width * bytes_per_column) |->
        LET x == ((k - 1) \div bytes_per_column) + 1
            g == (k - 1) % bytes_per_column
        IN  packbits([i \in 1..8 |-> bits[8 * g + i][x]])]

encode_xth_page(image) ==
    LET width == image.width
        height == image.height
        quantized == PadRows(quantize_to_4_levels(image), width, height)
        padded_height == ((height + 7) \div 8) * 8
        bit0 == fliplr([y \in 1..padded_height |->
                           [x \in 1..width |-> quantized[y][x] % 2]], width)
        bit1 == fliplr([y \in 1..padded_height |->
                           [x \in 1..width |-> (quantized[y][x] \div 2) % 2]],
                       width)
        bytes_per_column == padded_height \div 8
        plane0 == PackColumns(bit0, width, bytes_per_column)
        plane1 == PackColumns(bit1, width, bytes_per_column)
        data == plane0 \o plane1
        data_size == Len(data)
    IN  encode_xth_header(width, height, data_size) \o data

---------------------------------------------------------------------------
(* xtc_format.py: the container.  A title is a sequence of Unicode code    *)
(* points.                                                                 *)

\* str.encode("utf-8") of one code point: 1 to 4 bytes
utf8(cp) ==
    IF cp < 128 THEN <<cp>>
    ELSE IF cp < 2048 THEN <<192 + (cp \div 64), 128 + (cp % 64)>>
    ELSE IF cp < 65536
    THEN <<224 + (cp \div 4096), 128 + ((cp \div 64) % 64), 128 + (cp % 64)>>
    ELSE <<240 + (cp \div 262144), 128 + ((cp \div 4096) % 64),
           128 + ((cp \div 64) % 64), 128 + (cp % 64)>>

\* str.encode("utf-8"): the encodings of the code points in order (the
\* string is encoded half by half, which keeps the evaluation shallow)
RECURSIVE encode(_)
encode(str) ==
    IF str = <<>> THEN <<>>
    ELSE IF Len(str) = 1 THEN utf8(str[1])
    ELSE LET half == Len(str) \div 2
         IN  encode(SubSeq(str, 1, half))
             \o encode(SubSeq(str, half + 1, Len(str)))

IsContinuation(bytes, i) == i <= Len(bytes) /\ bytes[i] \in 128..191

\* the length of the well-formed UTF-8 sequence that starts at position i,
\* 0 if there is none
SequenceLength(bytes, i) ==
    LET lead == bytes[i]
        second == IF i < Len(bytes) THEN bytes[i + 1] ELSE 0
    IN  IF lead < 128 THEN 1
        ELSE IF lead \in 194..223 /\ IsContinuation(bytes, i + 1) THEN 2
        ELSE IF /\ lead \in 224..239
                /\ IsContinuation(bytes, i + 1) /\ IsContinuation(bytes, i + 2)
                /\ (lead = 224 => second >= 160)
                /\ (lead = 237 => second <= 159)
        THEN 3
        ELSE IF /\ lead \in 240..244
                /\ IsContinuation(bytes, i + 1) /\ IsContinuation(bytes, i + 2)
                /\ IsContinuation(bytes, i + 3)
                /\ (lead = 240 => second >= 144)
                /\ (lead = 244 => second <= 143)
        THEN 4
        ELSE 0

\* the code point of the well-formed sequence of n bytes at position i
CodePoint(bytes, i, n) ==
    CASE n = 1 -> bytes[i]
      [] n = 2 -> (bytes[i] - 192) * 64 + (bytes[i + 1] - 128)
      [] n = 3 -> (bytes[i] - 224) * 4096 + (bytes[i + 1] - 128) * 64
                  + (bytes[i + 2] - 128)
      [] n = 4 -> (bytes[i] - 240) * 262144 + (bytes[i + 1] - 128) * 4096
                  + (bytes[i + 2] - 128) * 64 + (bytes[i + 3] - 128)

\* bytes.decode("utf-8", errors="ignore") of the positions lo..hi: every
\* well-formed sequence is decoded and every other byte is dropped.  The
\* bytes a sequence covers after its first are continuation bytes, at which
\* no sequence starts, so the positions can be visited one by one (and half
\* by half, which keeps the evaluation shallow).
RECURSIVE DecodeRange(_, _, _)
DecodeRange(bytes, lo, hi) ==
    IF lo > hi THEN <<>>
    ELSE IF lo = hi
    THEN LET n == SequenceLength(bytes, lo)
         IN  IF n = 0 THEN <<>> ELSE <<CodePoint(bytes, lo, n)>>
    ELSE LET mid == (lo + hi) \div 2
         IN  DecodeRange(bytes, lo, mid) \o DecodeRange(bytes, mid + 1, hi)

decode(bytes) == DecodeRange(bytes, 1, Len(bytes))

\* bytes.split(b"\x00")[0]: the bytes before the first NUL
BeforeNul(bytes) ==
    IF \A k \in 1..Len(bytes) : bytes[k] # 0 THEN bytes
    ELSE SubSeq(bytes, 1,
                (CHOOSE k \in 1..Len(bytes) :
                     bytes[k] = 0 /\ \A j \in 1..(k - 1) : bytes[j] # 0) - 1)

\* bytes.ljust(size, b"\x00")
ljust(bytes, size) ==
    bytes \o [k \in 1..(IF size > Len(bytes) THEN size - Len(bytes) ELSE 0)
                 |-> 0]

\* a title field cut at the full size of the field, with no room for the NUL
TitleFieldUncut(title) ==
    ljust(Slice(encode(title), TITLE_MAX_SIZE) \o <<0>>, TITLE_MAX_SIZE)

\* write_xtc_container, lines 216-217: the title field
TitleField(title) ==
    ljust(Slice(encode(title), TITLE_MAX_SIZE - 1) \o <<0>>, TITLE_MAX_SIZE)

\* write_xtc_container, lines 212 and 220-222
MarkOf(grayscale) == IF grayscale THEN XTCH_MARK ELSE XTC_MARK
title_offset == XTC_HEADER_SIZE
page_table_offset == title_offset + TITLE_MAX_SIZE
DataOffset(page_count) == page_table_offset + page_count * PAGE_TABLE_ENTRY_SIZE

\* bytearray(n)
bytearray(n) == [k \in 1..n |-> 0]

\* struct.pack_into(format, buffer, offset, values): the packed fields
\* written over the buffer from the offset on
pack_into(sizes, buffer, offset, values) ==
    LET packed == pack(sizes, values)
    IN  SubSeq(buffer, 1, offset) \o packed
        \o SubSeq(buffer, offset + Len(packed) + 1, Len(buffer))

\* "<QIHH": offset, size, width, height
PageTableEntryFormat == <<8, 4, 2, 2>>

\* a table entry with the width and the height taken in the wrong order
PageTableEntrySwapped(table, i, offset, page_data) ==
    LET dims == unpack(<<4, 2, 2>>, Slice(page_data, 8))
    IN  pack_into(PageTableEntryFormat, table, i * PAGE_TABLE_ENTRY_SIZE,
                  <<offset, Len(page_data), dims[3], dims[2]>>)

\* write_xtc_container, lines 228-240: the entry of page i (counted from 0)
PageTableEntry(table, i, offset, page_data) ==
    LET dims == unpack(<<4, 2, 2>>, Slice(page_data, 8))
    IN  pack_into(PageTableEntryFormat, table, i * PAGE_TABLE_ENTRY_SIZE,
                  <<offset, Len(page_data), dims[2], dims[3]>>)

\* the data offset advanced by the size of a table entry
AdvanceByEntry(offset, page_data) == offset + PAGE_TABLE_ENTRY_SIZE

\* write_xtc_container, line 241
AdvanceOffset(offset, page_data) == offset + Len(page_data)

\* write_xtc_container, lines 227-241: one iteration of the table loop, on
\* the locals page_table and current_data_offset
TableLoopBody(locals, pages, i) ==
    [page_table |-> PageTableEntry(locals.page_table, i,
                                   locals.current_data_offset, pages[i + 1]),
     current_data_offset |-> AdvanceOffset(locals.current_data_offset,
                                           pages[i + 1])]

\* the iterations lo..hi of the table loop, in order: those of the first
\* half, then, from the locals they leave, those of the second half (which
\* keeps the evaluation shallow for books of many pages)
RECURSIVE TableLoop(_, _, _, _)
TableLoop(locals, pages, lo, hi) ==
    IF lo > hi THEN locals
    ELSE IF lo = hi THEN TableLoopBody(locals, pages, lo)
    ELSE LET mid == (lo + hi) \div 2
             first == TableLoop(locals, pages, lo, mid)
         IN  IF first.current_data_offset >= 0
             THEN TableLoop(first, pages, mid + 1, hi)
             ELSE locals

\* write_xtc_container, lines 278-279: what the page loop writes, from page
\* lo to page hi
RECURSIVE PagesWritten(_, _, _)
PagesWritten(pages, lo, hi) ==
    IF lo > hi THEN <<>>
    ELSE IF lo = hi THEN pages[lo]
    ELSE LET mid == (lo + hi) \div 2
         IN  PagesWritten(pages, lo, mid) \o PagesWritten(pages, mid + 1, hi)

\* "<IHHIIIIQQQI4x"
ContainerHeaderFormat == <<4, 2, 2, 4, 4, 4, 4, 8, 8, 8, 4>>

\* a header with the offsets of the page table and of the data exchanged
ContainerHeaderSwapped(grayscale, page_count) ==
    pack(ContainerHeaderFormat,
         <<MarkOf(grayscale), 1, page_count, 0, 88, 0, 0,
           DataOffset(page_count), page_table_offset, 0, title_offset>>)
    \o <<0, 0, 0, 0>>

\* write_xtc_container, lines 258-270
ContainerHeader(grayscale, page_count) ==
    pack(ContainerHeaderFormat,
         <<MarkOf(grayscale), 1, page_count, 0, 88, 0, 0,
           page_table_offset, DataOffset(page_count), 0, title_offset>>)
    \o <<0, 0, 0, 0>>

\* the header fields read as version first and magic last
ReadInfoFieldsShifted(file) ==
    LET fields == unpack(<<2, 2, 4>>, Slice(Slice(file, XTC_HEADER_SIZE), 8))
    IN  [mark |-> fields[3], version |-> fields[1], page_count |-> fields[2]]

\* read_xtc_info, line 292: struct.unpack("<IHH", header[:8])
ReadInfoFields(file) ==
    LET fields == unpack(<<4, 2, 2>>, Slice(Slice(file, XTC_HEADER_SIZE), 8))
    IN  [mark |-> fields[1], version |-> fields[2], page_count |-> fields[3]]

\* read_xtc_info, line 292: struct.unpack raises struct.error unless
\* header[:8] has its 8 bytes, that is unless the file has at least 8 bytes
ReadRaises(file) == Len(Slice(Slice(file, XTC_HEADER_SIZE), 8)) # 8

\* read_xtc_info when it returns: f.read gives the bytes there are, a magic
\* that is neither marker is reported in the format name
read_xtc_info(file) ==
    LET title_bytes_read ==
            Slice(SubSeq(file, XTC_HEADER_SIZE + 1, Len(file)), TITLE_MAX_SIZE)
        fields == ReadInfoFields(file)
    IN  [format |-> IF fields.mark = XTC_MARK THEN "XTC"
                    ELSE IF fields.mark = XTCH_MARK THEN "XTCH"
                    ELSE "Unknown",
         version |-> fields.version,
         pages |-> fields.page_count,
         title |-> decode(BeforeNul(title_bytes_read))]

---------------------------------------------------------------------------
(* State *)

VARIABLES
    content_blocks,        \* the block stream given to paginate
    base_font_size,        \* TextRenderer.base_font_size
    pc,                    \* "paginate" (the loop), "render", "rendered"
    consumed,              \* number of blocks the loop has taken
    pages,                 \* paginate's locals
    chapter_mappings,
    current_page_blocks,
    current_y,
    page_number,
    current_chapter,
    current_chapter_start,
    result,                \* the PaginationResult returned
    rendered_pages,        \* converter: one entry per page rendered
    wrap_arg_text,         \* wrap_text called on its own: the text,
    wrap_arg_max_width,    \*   the width budget,
    wrap_returned,         \*   and the lines returned (None before the call)
    codec_image,            \* a page encoder called on its own: the image,
    codec_call,            \*   the function called ("none" before the call)
    codec_returned,        \*   and what it returned
    book_pages,            \* write_xtc_container: pages,
    book_title,            \*   metadata.title,
    is_grayscale,
    writer_pc,             \*   the step of the writer
    title_bytes,           \*   its locals
    page_table,
    current_data_offset,
    header,
    output_file,           \*   the file at output_path (None: no file)
    xtc_info,              \* what read_xtc_info returned (None before)
    epub_files,            \* main: the inputs of the batch,
    output_format,         \*   args.format,
    out_files,             \*   the file at each out_path (None: no file),
    batch_pc,              \*   the step of the loop and of the conversion
    file_index,            \*   inputs the loop has finished with
    total_stats,
    printed,               \*   what was printed, in order
    stats,                 \* convert_epub_to_xtc: its locals
    page_index,            \*   pages the render loop has taken
    page_blobs,            \*   its list rendered_pages
    fed_events,            \* HTMLContentParser: the events fed so far,
    parser_blocks,         \*   self.blocks,
    current_text,
    style_stack,
    tag_stack,
    in_ignored,
    in_list,
    parsed                 \*   what get_blocks returned (None before)

pagination_vars ==
    <<content_blocks, base_font_size, pc, consumed, pages, chapter_mappings,
      current_page_blocks, current_y, page_number, current_chapter,
      current_chapter_start, result, rendered_pages>>

wrap_vars == <<wrap_arg_text, wrap_arg_max_width, wrap_returned>>

codec_vars == <<codec_image, codec_call, codec_returned>>

container_vars ==
    <<book_pages, book_title, is_grayscale, writer_pc, title_bytes, page_table,
      current_data_offset, header, output_file, xtc_info>>

\* the variables that pagination and rendering of a book never touch,
\* those a call of wrap_text never touches, those an encoder never touches,
\* those the container writer and reader never touch
batch_vars ==
    <<epub_files, output_format, out_files, batch_pc, file_index, total_stats,
      printed, stats, page_index, page_blobs>>

parser_vars ==
    <<fed_events, parser_blocks, current_text, style_stack, tag_stack,
      in_ignored, in_list, parsed>>

outside_pagination ==
    <<wrap_vars, codec_vars, container_vars, batch_vars, parser_vars>>
outside_wrap ==
    <<pagination_vars, codec_vars, container_vars, batch_vars, parser_vars>>
outside_codec ==
    <<pagination_vars, wrap_vars, container_vars, batch_vars, parser_vars>>
outside_container ==
    <<pagination_vars, wrap_vars, codec_vars, batch_vars, parser_vars>>
outside_batch ==
    <<pagination_vars, wrap_vars, codec_vars, container_vars, parser_vars>>
outside_parser ==
    <<pagination_vars, wrap_vars, codec_vars, container_vars, batch_vars>>

vars == <<pagination_vars, outside_pagination>>

\* no book is being paginated
PaginationIdle ==
    /\ content_blocks = <<>>
    /\ base_font_size = DEFAULT_FONT_SIZE
    /\ pc = "idle"
    /\ consumed = 0
    /\ pages = <<>>
    /\ chapter_mappings = <<>>
    /\ current_page_blocks = <<>>
    /\ current_y = 0
    /\ page_number = 1
    /\ current_chapter = None
    /\ current_chapter_start = 1
    /\ result = [pages |-> <<>>, chapters |-> <<>>, total_pages |-> 0]
    /\ rendered_pages = <<>>

\* wrap_text is not being called on its own
WrapIdle ==
    /\ wrap_arg_text = <<>>
    /\ wrap_arg_max_width = 0
    /\ wrap_returned = None

\* no page encoder is being called on its own
CodecIdle ==
    /\ codec_image = [width |-> 0, height |-> 0, pixels |-> <<>>]
    /\ codec_call = "none"
    /\ codec_returned = <<>>

\* no container is being written
ContainerIdle ==
    /\ book_pages = <<>>
    /\ book_title = <<>>
    /\ is_grayscale = FALSE
    /\ writer_pc = "idle"
    /\ title_bytes = <<>>
    /\ page_table = <<>>
    /\ current_data_offset = 0
    /\ header = <<>>
    /\ output_file = None
    /\ xtc_info = None

\* paginate's locals as one record
Locals ==
    [pages |-> pages, chapter_mappings |-> chapter_mappings,
     current_page_blocks |-> current_page_blocks, current_y |-> current_y,
     page_number |-> page_number, current_chapter |-> current_chapter,
     current_chapter_start |-> current_chapter_start]

SetLocals(L) ==
    /\ pages' = L.pages
    /\ chapter_mappings' = L.chapter_mappings
    /\ current_page_blocks' = L.current_page_blocks
    /\ current_y' = L.current_y
    /\ page_number' = L.page_number
    /\ current_chapter' = L.current_chapter
    /\ current_chapter_start' = L.current_chapter_start

\* no batch is being converted
BatchIdle ==
    /\ epub_files = <<>>
    /\ output_format = "xtch"
    /\ out_files = <<>>
    /\ batch_pc = "idle"
    /\ file_index = 0
    /\ total_stats = [pages |-> 0, chapters |-> 0, files |-> 0]
    /\ printed = <<>>
    /\ stats = [pages |-> 0, chapters |-> 0]
    /\ page_index = 0
    /\ page_blobs = <<>>

\* no document is being parsed
ParserIdle ==
    /\ fed_events = <<>>
    /\ parser_blocks = <<>>
    /\ current_text = <<>>
    /\ style_stack = <<>>
    /\ tag_stack = <<>>
    /\ in_ignored = 0
    /\ in_list = 0
    /\ parsed = None

\* paginate, lines 78-86, entered with any block stream and font size
Init ==
    /\ content_blocks \in BlockStreams
    /\ base_font_size \in FontSizes
    /\ pc = "paginate"
    /\ consumed = 0
    /\ pages = <<>>
    /\ chapter_mappings = <<>>
    /\ current_page_blocks = <<>>
    /\ current_y = 0
    /\ page_number = 1
    /\ current_chapter = None
    /\ current_chapter_start = 1
    /\ result = [pages |-> <<>>, chapters |-> <<>>, total_pages |-> 0]
    /\ rendered_pages = <<>>
    /\ WrapIdle
    /\ CodecIdle
    /\ ContainerIdle
    /\ BatchIdle
    /\ ParserIdle

\* one iteration of "for block in content_blocks"
PaginateBlock ==
    /\ pc = "paginate"
    /\ consumed < Len(content_blocks)
    /\ SetLocals(LoopBody(Locals, content_blocks[consumed + 1], base_font_size))
    /\ consumed' = consumed + 1
    /\ UNCHANGED <<content_blocks, base_font_size, pc, result, rendered_pages>>
    /\ UNCHANGED outside_pagination

\* the stream is exhausted: final page, final chapter, return
PaginateReturn ==
    /\ pc = "paginate"
    /\ consumed = Len(content_blocks)
    /\ SetLocals(AfterLoop(Locals))
    /\ result' = PaginationResult(AfterLoop(Locals))
    /\ pc' = "render"
    /\ UNCHANGED <<content_blocks, base_font_size, consumed, rendered_pages>>
    /\ UNCHANGED outside_pagination

\* converter.py, lines 65-75: render the next page of the result
RenderPage ==
    /\ pc = "render"
    /\ Len(rendered_pages) < Len(result.pages)
    /\ LET page == result.pages[Len(rendered_pages) + 1]
       IN  rendered_pages' =
               Append(rendered_pages,
                      render_page(page.blocks, page.page_number,
                                  result.total_pages, base_font_size))
    /\ UNCHANGED <<content_blocks, base_font_size, pc, consumed, pages,
                   chapter_mappings, current_page_blocks, current_y,
                   page_number, current_chapter, current_chapter_start, result>>
    /\ UNCHANGED outside_pagination

\* the loop over result.pages ends
RenderDone ==
    /\ pc = "render"
    /\ Len(rendered_pages) = Len(result.pages)
    /\ pc' = "rendered"
    /\ UNCHANGED <<content_blocks, base_font_size, consumed, pages,
                   chapter_mappings, current_page_blocks, current_y,
                   page_number, current_chapter, current_chapter_start, result,
                   rendered_pages>>
    /\ UNCHANGED outside_pagination

Next ==
    \/ PaginateBlock
    \/ PaginateReturn
    \/ RenderPage
    \/ RenderDone

Spec == Init /\ [][Next]_vars

---------------------------------------------------------------------------
(* wrap_text called on its own, with any short text and any width budget *)

MaxTextLen == 5

\* the characters of the texts: a wide glyph, a narrow glyph, a blank
WrapAlphabet == {"M", "i", " "}

\* all texts of at most MaxTextLen characters, blanks anywhere
WrapTexts ==
    UNION {[1..n -> WrapAlphabet] : n \in 0..MaxTextLen}

\* width budgets: below the narrowest glyph (8), below the widest (34),
\* and room for one, two and three wide glyphs
WrapWidths == {0, 8, 20, 34, 42, 76, 110}

WrapFont == get_font(DEFAULT_FONT_SIZE, FALSE, FALSE)

InitWrap ==
    /\ PaginationIdle
    /\ CodecIdle
    /\ ContainerIdle
    /\ BatchIdle
    /\ ParserIdle
    /\ wrap_arg_text \in WrapTexts
    /\ wrap_arg_max_width \in WrapWidths
    /\ wrap_returned = None

\* lines = renderer.wrap_text(text, font, max_width)
WrapCall ==
    /\ wrap_returned = None
    /\ wrap_returned' = Some(wrap_text(wrap_arg_text, WrapFont,
                                        wrap_arg_max_width))
    /\ UNCHANGED <<outside_wrap, wrap_arg_text, wrap_arg_max_width>>

NextWrap == WrapCall

SpecWrap == InitWrap /\ [][NextWrap]_vars

---------------------------------------------------------------------------
(* The page encoders called on their own, on small images *)

MaxImageWidth == 9
MaxImageHeight == 9

\* samples of the background and of the one pixel that differs from it: one
\* sample of each of the four gray levels, on black and on white
BackgroundSamples == {0, 255}
PixelSamples == {0, 100, 200, 255}

\* width x height samples u, but v at row r and column c
OnePixelImage(w, h, r, c, u, v) ==
    [width |-> w, height |-> h,
     pixels |-> [y \in 1..h |->
                    [x \in 1..w |-> IF y = r /\ x = c THEN v ELSE u]]]

\* the images encoded: every sample next to its successor as a 2 x 1 image,
\* and every image of up to MaxImageWidth x MaxImageHeight with one pixel
\* set apart
CodecImages ==
    {OnePixelImage(2, 1, 1, 2, v, v + 1) : v \in 0..254}
    \cup {OnePixelImage(p[1], p[2], p[3], p[4], u, v) :
              p \in {q \in (1..MaxImageWidth) \X (1..MaxImageHeight)
                            \X (1..MaxImageHeight) \X (1..MaxImageWidth) :
                         q[3] <= q[2] /\ q[4] <= q[1]},
              u \in BackgroundSamples, v \in PixelSamples}

InitCodec ==
    /\ PaginationIdle
    /\ WrapIdle
    /\ ContainerIdle
    /\ BatchIdle
    /\ ParserIdle
    /\ codec_image \in CodecImages
    /\ codec_call = "none"
    /\ codec_returned = <<>>

\* output = quantize_to_4_levels(image)
QuantizeCall ==
    /\ codec_call = "none"
    /\ codec_call' = "quantize_to_4_levels"
    /\ codec_returned' = quantize_to_4_levels(codec_image)
    /\ UNCHANGED <<outside_codec, codec_image>>

\* page_data = encode_xtg_page(image)
EncodeXtgCall ==
    /\ codec_call = "none"
    /\ codec_call' = "encode_xtg_page"
    /\ codec_returned' = encode_xtg_page(codec_image)
    /\ UNCHANGED <<outside_codec, codec_image>>

\* page_data = encode_xth_page(image)
EncodeXthCall ==
    /\ codec_call = "none"
    /\ codec_call' = "encode_xth_page"
    /\ codec_returned' = encode_xth_page(codec_image)
    /\ UNCHANGED <<outside_codec, codec_image>>

NextCodec ==
    \/ QuantizeCall
    \/ EncodeXtgCall
    \/ EncodeXthCall

SpecCodec == InitCodec /\ [][NextCodec]_vars

---------------------------------------------------------------------------
(* write_xtc_container followed by read_xtc_info on the file it wrote.     *)
(* Every call that opens, writes or closes the output file is a step.      *)

MaxPages == 3
ManyPages == 1001

\* the page images of a book: two sizes, so that pages differ in width,
\* height and encoded size
PageImageA == OnePixelImage(9, 2, 1, 9, 255, 0)
PageImageB == OnePixelImage(3, 9, 9, 1, 255, 100)

\* converter.py, lines 70-73: a page image encoded for the output format
EncodePage(image, grayscale) ==
    IF grayscale THEN encode_xth_page(image) ELSE encode_xtg_page(image)

\* the books of up to MaxPages pages
SmallBooks ==
    UNION {[1..n -> {PageImageA, PageImageB}] : n \in 0..MaxPages}

\* a book of ManyPages pages of one pixel and of two pixels in turn
LongBook ==
    [i \in 1..ManyPages |->
        IF i % 2 = 1 THEN OnePixelImage(1, 1, 1, 1, 255, 255)
        ELSE OnePixelImage(2, 1, 1, 2, 255, 0)]

\* code points of 1, 2, 3 and 4 bytes in UTF-8, and NUL
TitleCodePoints == {65, 233, 8364, 128512, 0}

\* titles: n letters "A" followed by at most two code points of any length,
\* with n = 0 or such that the encoding ends either side of the 127 bytes
\* the title field has room for
TitleTails == UNION {[1..n -> TitleCodePoints] : n \in 0..2}
TitlePrefixLengths == {0} \cup ((TITLE_MAX_SIZE - 6)..(TITLE_MAX_SIZE + 1))
Titles ==
    {[k \in 1..n |-> 65] \o tail : n \in TitlePrefixLengths, tail \in TitleTails}

\* a book of a few pages with the short title "A", in either format, or a
\* two-page book with any title, or the long book
ContainerInputs ==
    {[images |-> b, title |-> <<65>>, grayscale |-> g] :
         b \in SmallBooks, g \in BOOLEAN}
    \cup {[images |-> <<PageImageA, PageImageB>>, title |-> t, grayscale |-> g] :
              t \in Titles, g \in BOOLEAN}
    \cup {[images |-> LongBook, title |-> <<65>>, grayscale |-> FALSE]}

\* encoded pages, title and format as convert_epub_to_xtc hands them over
InitContainer ==
    /\ PaginationIdle
    /\ WrapIdle
    /\ CodecIdle
    /\ BatchIdle
    /\ ParserIdle
    /\ \E input \in ContainerInputs :
           /\ book_pages = [i \in 1..Len(input.images) |->
                               EncodePage(input.images[i], input.grayscale)]
           /\ book_title = input.title
           /\ is_grayscale = input.grayscale
    /\ writer_pc = "entry"
    /\ title_bytes = <<>>
    /\ page_table = <<>>
    /\ current_data_offset = 0
    /\ header = <<>>
    /\ output_file = None
    /\ xtc_info = None

\* write_xtc_container, lines 212-241: the title field and the page table
BuildPageTable ==
    /\ writer_pc = "entry"
    /\ title_bytes' = TitleField(book_title)
    /\ LET page_count == Len(book_pages)
           locals == TableLoop(
               [page_table |-> bytearray(page_count * PAGE_TABLE_ENTRY_SIZE),
                current_data_offset |-> DataOffset(page_count)],
               book_pages, 0, page_count - 1)
       IN  /\ page_table' = locals.page_table
           /\ current_data_offset' = locals.current_data_offset
    /\ writer_pc' = "table"
    /\ UNCHANGED <<outside_container, book_pages, book_title, is_grayscale,
                   header, output_file, xtc_info>>

\* write_xtc_container, lines 258-270
BuildHeader ==
    /\ writer_pc = "table"
    /\ header' = ContainerHeader(is_grayscale, Len(book_pages))
    /\ writer_pc' = "open"
    /\ UNCHANGED <<outside_container, book_pages, book_title, is_grayscale,
                   title_bytes, page_table, current_data_offset, output_file,
                   xtc_info>>

\* write_xtc_container, line 274: open(output_path, "wb")
OpenOutput ==
    /\ writer_pc = "open"
    /\ output_file' = Some(<<>>)
    /\ writer_pc' = "header"
    /\ UNCHANGED <<outside_container, book_pages, book_title, is_grayscale,
                   title_bytes, page_table, current_data_offset, header,
                   xtc_info>>

\* f.write(data) followed by the step `then`
WriteStep(data, then) ==
    /\ output_file' = Some(output_file[1] \o data)
    /\ writer_pc' = then
    /\ UNCHANGED <<outside_container, book_pages, book_title, is_grayscale,
                   title_bytes, page_table, current_data_offset, header,
                   xtc_info>>

\* write_xtc_container, line 275
WriteHeader == writer_pc = "header" /\ WriteStep(header, "title")

\* write_xtc_container, line 276
WriteTitle == writer_pc = "title" /\ WriteStep(title_bytes, "page_table")

\* write_xtc_container, line 277
WritePageTable == writer_pc = "page_table" /\ WriteStep(page_table, "pages")

\* write_xtc_container, lines 278-279: the page loop
WritePages ==
    /\ writer_pc = "pages"
    /\ WriteStep(PagesWritten(book_pages, 1, Len(book_pages)), "close")

\* the file is closed and the writer returns
CloseOutput ==
    /\ writer_pc = "close"
    /\ writer_pc' = "written"
    /\ UNCHANGED <<outside_container, book_pages, book_title, is_grayscale,
                   title_bytes, page_table, current_data_offset, header,
                   output_file, xtc_info>>

\* info = read_xtc_info(output_path)
ReadInfo ==
    /\ writer_pc = "written"
    /\ IF ReadRaises(output_file[1])
       THEN writer_pc' = "read_raised" /\ UNCHANGED xtc_info
       ELSE /\ xtc_info' = Some(read_xtc_info(output_file[1]))
            /\ writer_pc' = "read"
    /\ UNCHANGED <<outside_container, book_pages, book_title, is_grayscale,
                   title_bytes, page_table, current_data_offset, header,
                   output_file>>

NextContainer ==
    \/ BuildPageTable
    \/ BuildHeader
    \/ OpenOutput
    \/ WriteHeader
    \/ WriteTitle
    \/ WritePageTable
    \/ WritePages
    \/ CloseOutput
    \/ ReadInfo

SpecContainer == InitContainer /\ [][NextContainer]_vars

---------------------------------------------------------------------------
(* read_xtc_info on a file that is not a well-formed container: a written  *)
(* container cut short, or with its magic or a recorded size overwritten.  *)

\* the file write_xtc_container leaves at the output path
ContainerFile(blobs, title, grayscale) ==
    LET page_count == Len(blobs)
        locals == TableLoop(
            [page_table |-> bytearray(page_count * PAGE_TABLE_ENTRY_SIZE),
             current_data_offset |-> DataOffset(page_count)],
            blobs, 0, page_count - 1)
    IN  ContainerHeader(grayscale, page_count) \o TitleField(title)
        \o locals.page_table \o PagesWritten(blobs, 1, page_count)

\* the containers that get damaged: two pages, the title "AA", either format
SoundFiles ==
    {ContainerFile(<<EncodePage(PageImageA, g), EncodePage(PageImageB, g)>>,
                   <<65, 65>>, g) : g \in BOOLEAN}

\* the first n bytes of a file
Truncated(file, n) == SubSeq(file, 1, n)

\* a file with the little-endian field of `size` bytes at `offset`
\* overwritten
Overwritten(file, offset, size, value) ==
    SubSeq(file, 1, offset) \o PackField(value, size)
    \o SubSeq(file, offset + size + 1, Len(file))

\* magics that are neither marker: zero, the XTG page mark, "XTCX"
ForeignMarks == {0, XTG_MARK, XTC_MARK + 88 * 16777216}

\* every truncation of a sound file, every foreign magic, and the size of
\* the last page recorded one byte too large or too small
DamagedFiles ==
    UNION {{Truncated(f, n) : n \in 0..(Len(f) - 1)}
           \cup {Overwritten(f, 0, 4, m) : m \in ForeignMarks}
           \cup {Overwritten(f, page_table_offset + PAGE_TABLE_ENTRY_SIZE + 8, 4,
                             Len(f) - DataOffset(2) + d) : d \in {-1, 1}}
           : f \in SoundFiles}

\* a file at the path, sound or damaged, and read_xtc_info about to be called
InitDamaged ==
    /\ PaginationIdle
    /\ WrapIdle
    /\ CodecIdle
    /\ BatchIdle
    /\ ParserIdle
    /\ book_pages = <<>>
    /\ book_title = <<>>
    /\ is_grayscale = FALSE
    /\ writer_pc = "written"
    /\ title_bytes = <<>>
    /\ page_table = <<>>
    /\ current_data_offset = 0
    /\ header = <<>>
    /\ output_file \in {Some(f) : f \in SoundFiles \cup DamagedFiles}
    /\ xtc_info = None

NextDamaged == ReadInfo

SpecDamaged == InitDamaged /\ [][NextDamaged]_vars

---------------------------------------------------------------------------
(* converter.py: main's batch loop around convert_epub_to_xtc.  A book is  *)
(* given by what parsing and pagination make of it (the rendered image of  *)
(* each page, the number of chapters, the title) and by the step of its    *)
(* conversion that raises, if any: "parse" (lines 47-56), "page" (the      *)
(* render or encode of page raising_page, lines 67-73), "write" (line 93,  *)
(* the open of the output path), or "none".                                *)

MaxFiles == 2

Book(images, chapters, raises, raising_page) ==
    [images |-> images, chapters |-> chapters, title |-> <<65>>,
     raises |-> raises, raising_page |-> raising_page]

\* books of no, one and two pages, with every step that can raise
BookPool ==
    UNION {{Book(images, Len(images), r, 0) : r \in {"none", "parse", "write"}}
           \cup {Book(images, Len(images), "page", n) : n \in 1..Len(images)}
           : images \in {<<>>, <<PageImageB>>, <<PageImageA, PageImageB>>}}

\* epub_files is not empty (main exits otherwise, line 198)
Batches == UNION {[1..n -> BookPool] : n \in 1..MaxFiles}

\* what is at an out_path before the batch, where there is a file
StaleFile == <<83, 84, 65, 76, 69>>

\* main, lines 208-209, with either format and with or without files at
\* the output paths
InitBatch ==
    /\ PaginationIdle
    /\ WrapIdle
    /\ CodecIdle
    /\ ContainerIdle
    /\ ParserIdle
    /\ epub_files \in Batches
    /\ output_format \in {"xtc", "xtch"}
    /\ \E before \in {None, Some(StaleFile)} :
           out_files = [k \in 1..Len(epub_files) |-> before]
    /\ batch_pc = "loop"
    /\ file_index = 0
    /\ total_stats = [pages |-> 0, chapters |-> 0, files |-> 0]
    /\ printed = <<>>
    /\ stats = [pages |-> 0, chapters |-> 0]
    /\ page_index = 0
    /\ page_blobs = <<>>

\* the input the loop is at
CurrentBook == epub_files[file_index + 1]

\* "for epub_path in epub_files", lines 211-224, and the entry of
\* convert_epub_to_xtc, line 44
BatchNextFile ==
    /\ batch_pc = "loop"
    /\ file_index < Len(epub_files)
    /\ printed' = Append(printed, <<"Converting", file_index + 1>>)
    /\ stats' = [pages |-> 0, chapters |-> 0]
    /\ batch_pc' = "parse"
    /\ UNCHANGED <<outside_batch, epub_files, output_format, out_files,
                   file_index, total_stats, page_index, page_blobs>>

\* convert_epub_to_xtc, lines 47-62: parse, paginate, fill stats
ConvertParse ==
    /\ batch_pc = "parse"
    /\ IF CurrentBook.raises = "parse"
       THEN /\ batch_pc' = "except"
            /\ UNCHANGED <<stats, page_index, page_blobs>>
       ELSE /\ stats' = [pages |-> Len(CurrentBook.images),
                         chapters |-> CurrentBook.chapters]
            /\ page_index' = 0
            /\ page_blobs' = <<>>
            /\ batch_pc' = "render"
    /\ UNCHANGED <<outside_batch, epub_files, output_format, out_files,
                   file_index, total_stats, printed>>

\* a render loop that goes on to the next page whatever happened
PageSkipped(raised) == "render"

\* the render loop when the render or the encode of a page raises: the
\* exception leaves convert_epub_to_xtc (no handler in lines 65-75)
PageRaised(raised) == IF raised THEN "except" ELSE "render"

\* one iteration of "for page in result.pages", lines 65-75
ConvertRenderPage ==
    /\ batch_pc = "render"
    /\ page_index < Len(CurrentBook.images)
    /\ LET raised == /\ CurrentBook.raises = "page"
                     /\ CurrentBook.raising_page = page_index + 1
       IN  /\ batch_pc' = PageRaised(raised)
           /\ page_blobs' =
                  IF raised THEN page_blobs
                  ELSE Append(page_blobs,
                              EncodePage(CurrentBook.images[page_index + 1],
                                         output_format = "xtch"))
    /\ page_index' = page_index + 1
    /\ UNCHANGED <<outside_batch, epub_files, output_format, out_files,
                   file_index, total_stats, printed, stats>>

\* the loop is over: lines 78-99, write_xtc_container on the output path;
\* where it raises, it is the open of the path that does (line 274)
ConvertWrite ==
    /\ batch_pc = "render"
    /\ page_index = Len(CurrentBook.images)
    /\ IF CurrentBook.raises = "write"
       THEN /\ batch_pc' = "except"
            /\ UNCHANGED out_files
       ELSE /\ out_files' =
                  [out_files EXCEPT ![file_index + 1] =
                      Some(ContainerFile(page_blobs, CurrentBook.title,
                                         output_format = "xtch"))]
            /\ batch_pc' = "return"
    /\ UNCHANGED <<outside_batch, epub_files, output_format, file_index,
                   total_stats, printed, stats, page_index, page_blobs>>

\* a handler that leaves the loop
Break(index, file_count) == file_count

\* the loop after a failed conversion: "continue", line 245
Continue(index, file_count) == index + 1

\* lines 235-237
Accumulate(total, converted) ==
    [pages |-> total.pages + converted.pages,
     chapters |-> total.chapters + converted.chapters,
     files |-> total.files + 1]

\* convert_epub_to_xtc returned: lines 235-240
BatchConverted ==
    /\ batch_pc = "return"
    /\ total_stats' = Accumulate(total_stats, stats)
    /\ printed' = Append(printed, <<"->", file_index + 1, stats.pages,
                                    stats.chapters>>)
    /\ file_index' = file_index + 1
    /\ batch_pc' = "loop"
    /\ UNCHANGED <<outside_batch, epub_files, output_format, out_files,
                   stats, page_index, page_blobs>>

\* "except Exception", lines 242-245
BatchExcept ==
    /\ batch_pc = "except"
    /\ printed' = Append(printed, <<"Error", file_index + 1>>)
    /\ file_index' = Continue(file_index, Len(epub_files))
    /\ batch_pc' = "loop"
    /\ UNCHANGED <<outside_batch, epub_files, output_format, out_files,
                   total_stats, stats, page_index, page_blobs>>

\* the loop is over: the summary, lines 248-252
BatchSummary ==
    /\ batch_pc = "loop"
    /\ file_index = Len(epub_files)
    /\ printed' =
           IF total_stats.files > 1
           THEN Append(printed, <<"Summary", total_stats.files,
                                  total_stats.pages, total_stats.chapters>>)
           ELSE printed
    /\ batch_pc' = "done"
    /\ UNCHANGED <<outside_batch, epub_files, output_format, out_files,
                   file_index, total_stats, stats, page_index, page_blobs>>

NextBatch ==
    \/ BatchNextFile
    \/ ConvertParse
    \/ ConvertRenderPage
    \/ ConvertWrite
    \/ BatchConverted
    \/ BatchExcept
    \/ BatchSummary

SpecBatch == InitBatch /\ [][NextBatch]_vars

---------------------------------------------------------------------------
(* epub_parser.py: HTMLContentParser fed the events of a document.  The    *)
(* documents are well nested: an end tag closes the innermost open         *)
(* element, and the void elements (meta, link, br) come as start tags      *)
(* with no end tag, as html.parser reports <meta ...> and <br>.            *)

MaxEvents == 5

IGNORED_TAGS == {"script", "style", "head", "meta", "link", "title"}

\* elements with no content and no end tag
VoidTags == {"meta", "link", "br"}

\* the tags and the text of the documents
ParserTags == {"p", "b", "br", "head", "title", "meta"}
ParserData == {<<"x">>}

StartEvent(tag) == [kind |-> "start", tag |-> tag, data |-> <<>>]
EndEvent(tag) == [kind |-> "end", tag |-> tag, data |-> <<>>]
DataEvent(data) == [kind |-> "data", tag |-> "", data |-> data]

\* the elements open after the events, outermost first
RECURSIVE OpenElements(_)
OpenElements(events) ==
    IF events = <<>> THEN <<>>
    ELSE LET before == OpenElements(SubSeq(events, 1, Len(events) - 1))
             last == events[Len(events)]
         IN  IF last.kind = "start" /\ last.tag \notin VoidTags
             THEN Append(before, last.tag)
             ELSE IF last.kind = "end"
             THEN SubSeq(before, 1, Len(before) - 1)
             ELSE before

\* HTMLContentParser.__init__
InitParser ==
    /\ PaginationIdle
    /\ WrapIdle
    /\ CodecIdle
    /\ ContainerIdle
    /\ BatchIdle
    /\ fed_events = <<>>
    /\ parser_blocks = <<>>
    /\ current_text = <<>>
    /\ style_stack = <<DefaultStyle>>
    /\ tag_stack = <<>>
    /\ in_ignored = 0
    /\ in_list = 0
    /\ parsed = None

current_style(stack) ==
    IF stack # <<>> THEN stack[Len(stack)] ELSE DefaultStyle

pop_style(stack) ==
    IF Len(stack) > 1 THEN SubSeq(stack, 1, Len(stack) - 1) ELSE stack

\* the blocks after emit_block(block_type): the text stripped, its runs of
\* whitespace made one blank, appended where not empty
emit_block(blocks, text, stack, block_type) ==
    LET normalized == join(split(text))
    IN  IF normalized # <<>>
        THEN Append(blocks, [text |-> normalized,
                             style |-> current_style(stack),
                             block_type |-> block_type])
        ELSE blocks

HeadingTags == {"h1", "h2", "h3", "h4", "h5", "h6"}

\* int(tag[1])
HeadingLevelOf(tag) ==
    CASE tag = "h1" -> 1 [] tag = "h2" -> 2 [] tag = "h3" -> 3
      [] tag = "h4" -> 4 [] tag = "h5" -> 5 [] tag = "h6" -> 6

\* the style handle_starttag pushes for a tag, by push_style
PushedStyle(tag, stack, list_depth) ==
    LET current == current_style(stack)
    IN  CASE tag \in {"strong", "b"} -> [current EXCEPT !.bold = TRUE]
          [] tag \in {"em", "i"} -> [current EXCEPT !.italic = TRUE]
          [] tag \in HeadingTags ->
                 [current EXCEPT !.font_size = HEADING_SIZES[HeadingLevelOf(tag)],
                                 !.bold = TRUE, !.is_heading = TRUE,
                                 !.heading_level = HeadingLevelOf(tag)]
          [] tag = "li" -> [current EXCEPT !.indent = 20 * list_depth]
          [] tag = "blockquote" ->
                 [current EXCEPT !.indent = 20, !.italic = TRUE]

\* the document goes on: no more than MaxEvents events
MoreEvents == parsed = None /\ style_stack # <<>> /\ Len(fed_events) < MaxEvents

\* handle_starttag(tag, attrs)
HandleStartTag ==
    /\ MoreEvents
    /\ \E tag \in ParserTags :
        /\ fed_events' = Append(fed_events, StartEvent(tag))
        /\ tag_stack' = Append(tag_stack, tag)
        /\ IF tag \in IGNORED_TAGS
           THEN /\ in_ignored' = in_ignored + 1
                /\ UNCHANGED <<style_stack, in_list, current_text>>
           ELSE IF in_ignored # 0
           THEN UNCHANGED <<in_ignored, style_stack, in_list, current_text>>
           ELSE /\ UNCHANGED in_ignored
                /\ style_stack' =
                       IF tag \in {"strong", "b", "em", "i", "li", "blockquote"}
                                  \cup HeadingTags
                       THEN Append(style_stack,
                                   PushedStyle(tag, style_stack, in_list))
                       ELSE style_stack
                /\ in_list' = IF tag \in {"ul", "ol"} THEN in_list + 1
                              ELSE in_list
                /\ current_text' = IF tag = "br"
                                   THEN Append(current_text, "\n")
                                   ELSE current_text
    /\ UNCHANGED <<outside_parser, parser_blocks, parsed>>

\* the block type handle_endtag emits for a tag
BlockTypeOf(tag) ==
    CASE tag \in {"p", "div"} -> "paragraph"
      [] tag = "h1" -> "heading1" [] tag = "h2" -> "heading2"
      [] tag = "h3" -> "heading3" [] tag = "h4" -> "heading4"
      [] tag = "h5" -> "heading5" [] tag = "h6" -> "heading6"
      [] tag = "li" -> "list_item"
      [] tag = "blockquote" -> "blockquote"

\* handle_endtag(tag), for the innermost open element
HandleEndTag ==
    /\ MoreEvents
    /\ OpenElements(fed_events) # <<>>
    /\ LET open == OpenElements(fed_events)
           tag == open[Len(open)]
           emits == tag \in {"p", "div", "li", "blockquote"} \cup HeadingTags
           pops == tag \in {"li", "blockquote", "strong", "b", "em", "i"}
                           \cup HeadingTags
       IN  /\ fed_events' = Append(fed_events, EndEvent(tag))
           /\ tag_stack' =
                  IF tag_stack # <<>> /\ tag_stack[Len(tag_stack)] = tag
                  THEN SubSeq(tag_stack, 1, Len(tag_stack) - 1)
                  ELSE tag_stack
           /\ IF tag \in IGNORED_TAGS
              THEN /\ in_ignored' = IF in_ignored - 1 > 0 THEN in_ignored - 1
                                    ELSE 0
                   /\ UNCHANGED <<parser_blocks, current_text, style_stack,
                                  in_list>>
              ELSE IF in_ignored # 0
              THEN UNCHANGED <<in_ignored, parser_blocks, current_text,
                               style_stack, in_list>>
              ELSE /\ UNCHANGED in_ignored
                   /\ parser_blocks' =
                          IF emits
                          THEN emit_block(parser_blocks, current_text,
                                          style_stack, BlockTypeOf(tag))
                          ELSE parser_blocks
                   /\ current_text' = IF emits THEN <<>> ELSE current_text
                   /\ style_stack' = IF pops THEN pop_style(style_stack)
                                     ELSE style_stack
                   /\ in_list' = IF tag \in {"ul", "ol"}
                                 THEN (IF in_list - 1 > 0 THEN in_list - 1
                                       ELSE 0)
                                 ELSE in_list
    /\ UNCHANGED <<outside_parser, parsed>>

\* handle_data(data)
HandleData ==
    /\ MoreEvents
    /\ \E data \in ParserData :
        /\ fed_events' = Append(fed_events, DataEvent(data))
        /\ current_text' = IF in_ignored = 0 THEN current_text \o data
                           ELSE current_text
    /\ UNCHANGED <<outside_parser, parser_blocks, style_stack, tag_stack,
                   in_ignored, in_list, parsed>>

\* get_blocks(), once every element is closed
GetBlocks ==
    /\ parsed = None
    /\ style_stack # <<>>
    /\ OpenElements(fed_events) = <<>>
    /\ LET emits == join(split(current_text)) # <<>>
       IN  /\ parser_blocks' =
                  IF emits
                  THEN emit_block(parser_blocks, current_text, style_stack,
                                  "paragraph")
                  ELSE parser_blocks
           /\ current_text' = IF emits THEN <<>> ELSE current_text
    /\ parsed' = Some(parser_blocks')
    /\ UNCHANGED <<outside_parser, fed_events, style_stack, tag_stack,
                   in_ignored, in_list>>

NextParser ==
    \/ HandleStartTag
    \/ HandleEndTag
    \/ HandleData
    \/ GetBlocks

SpecParser == InitParser /\ [][NextParser]_vars

---------------------------------------------------------------------------
(* Helpers of the properties *)

\* the block lists of the pages ps, concatenated in page order
RECURSIVE ConcatBlocks(_)
ConcatBlocks(ps) ==
    IF ps = <<>> THEN <<>>
    ELSE ps[1].blocks \o ConcatBlocks(Tail(ps))

\* the estimated height of a block at the renderer's font size
Estimated(block) == paginator_estimate_block_height(block, base_font_size)

\* the sum of the estimated heights of the blocks
RECURSIVE SumEstimated(_)
SumEstimated(blocks) ==
    IF blocks = <<>> THEN 0
    ELSE Estimated(blocks[1]) + SumEstimated(Tail(blocks))

\* stream position of the first and of the last block of page i
FirstPos(ps, i) == Len(ConcatBlocks(SubSeq(ps, 1, i - 1))) + 1

LastPos(ps, i) == Len(ConcatBlocks(SubSeq(ps, 1, i)))

\* the page holding the block at stream position n
PageOfBlock(ps, n) ==
    CHOOSE i \in 1..Len(ps) : FirstPos(ps, i) <= n /\ n <= LastPos(ps, i)

\* position of the last chapter-level heading at or before position n, or 0
ChapterHeadingBefore(n) ==
    LET hs == {j \in 1..n : is_chapter_heading(content_blocks[j])}
    IN  IF hs = {} THEN 0 ELSE CHOOSE j \in hs : \A k \in hs : k <= j

\* a heading of any level
IsHeadingBlock(block) ==
    \/ block.style.is_heading
    \/ block.block_type \in {"heading1", "heading2", "heading3",
                             "heading4", "heading5", "heading6"}

Returned == pc # "paginate"

---------------------------------------------------------------------------
(* Properties of paginate *)

\* C1: the pages' block lists, concatenated in page order, are the input
\* sequence: while the loop runs the emitted pages followed by the page under
\* construction are exactly the blocks taken so far, and the returned pages
\* hold the whole stream, each block once, in order, on one page.
C1_PagesPartitionInput ==
    /\ pc = "paginate" =>
           ConcatBlocks(pages) \o current_page_blocks
               = SubSeq(content_blocks, 1, consumed)
    /\ Returned => ConcatBlocks(result.pages) = content_blocks

C1_Witness ==
    /\ Returned
    /\ Len(content_blocks) >= 4
    /\ Len(result.pages) >= 2
    /\ \E i \in 1..Len(result.pages) : Len(result.pages[i].blocks) >= 2

\* C2: the estimated heights of the blocks of an emitted page sum to at most
\* content_height, unless the page holds one block which alone is taller; a
\* page of two or more blocks never exceeds content_height.
C2_PageHeightBound ==
    \A i \in 1..Len(pages) :
        LET bs == pages[i].blocks
        IN  /\ \/ SumEstimated(bs) <= content_height
               \/ /\ Len(bs) = 1
                  /\ Estimated(bs[1]) > content_height
            /\ Len(bs) >= 2 => SumEstimated(bs) <= content_height

C2_Witness ==
    /\ Returned
    /\ \E i \in 1..Len(pages) :
           Len(pages[i].blocks) = 1 /\ SumEstimated(pages[i].blocks) > content_height
    /\ \E i \in 1..Len(pages) :
           /\ Len(pages[i].blocks) >= 2
           /\ i < Len(pages)
           /\ SumEstimated(pages[i].blocks) > content_height \div 2

\* C3 (as claimed): with a chapter-level heading in the input the page ranges
\* of the mappings cover every page of 1..total_pages; without one there are
\* no mappings.
C3_ChaptersCoverPages ==
    Returned =>
        IF \E j \in 1..Len(content_blocks) : is_chapter_heading(content_blocks[j])
        THEN \A n \in 1..result.total_pages :
                 \E m \in 1..Len(result.chapters) :
                     /\ result.chapters[m].start_page <= n
                     /\ n <= result.chapters[m].end_page
        ELSE result.chapters = <<>>

\* C4: each mapping has start_page <= end_page, and each mapping ends before
\* the next one starts, so the mappings are in strictly increasing start_page
\* order and pairwise disjoint.
C4_ChaptersOrderedDisjoint ==
    /\ \A m \in 1..Len(chapter_mappings) :
           chapter_mappings[m].start_page <= chapter_mappings[m].end_page
    /\ \A m \in 1..(Len(chapter_mappings) - 1) :
           /\ chapter_mappings[m].end_page < chapter_mappings[m + 1].start_page
           /\ chapter_mappings[m].start_page < chapter_mappings[m + 1].start_page
    /\ Returned => result.chapters = chapter_mappings

C4_Witness ==
    /\ Returned
    /\ Len(result.chapters) >= 2
    /\ \E m \in 1..Len(result.chapters) :
           result.chapters[m].start_page < result.chapters[m].end_page

\* C5: a chapter-level heading is always the first block of its page, no
\* emitted page is empty, and a leading chapter heading is on page 1.
C5_ChapterHeadingStartsPage ==
    /\ \A i \in 1..Len(pages) :
           /\ pages[i].blocks # <<>>
           /\ \A k \in 2..Len(pages[i].blocks) :
                  ~is_chapter_heading(pages[i].blocks[k])
    /\ \A k \in 2..Len(current_page_blocks) :
           ~is_chapter_heading(current_page_blocks[k])
    /\ (Returned /\ content_blocks # <<>> /\ is_chapter_heading(content_blocks[1]))
           => /\ result.pages[1].page_number = 1
              /\ result.pages[1].blocks[1] = content_blocks[1]

C5_Witness ==
    /\ Returned
    /\ Len(content_blocks) >= 3
    /\ is_chapter_heading(content_blocks[1])
    /\ ~is_chapter_heading(content_blocks[2])
    /\ is_chapter_heading(content_blocks[3])
    /\ SumEstimated(SubSeq(content_blocks, 1, 3)) <= content_height

\* C6 (as claimed): a page is flagged is_chapter_start exactly when it is the
\* start page of the chapter it belongs to (the chapter opened by the last
\* chapter-level heading at or before the page's first block), and carries
\* that chapter's title exactly then.
C6_ChapterStartFlag ==
    Returned =>
        \A i \in 1..Len(result.pages) :
            LET page == result.pages[i]
                h == ChapterHeadingBefore(FirstPos(result.pages, i))
                starts == /\ h > 0
                          /\ result.pages[PageOfBlock(result.pages, h)].page_number
                                 = page.page_number
            IN  /\ page.is_chapter_start <=> starts
                /\ page.chapter_title
                       = IF starts THEN Some(content_blocks[h].text) ELSE None

\* C7: the i-th page has page_number i, total_pages is the number of pages
\* and the number of the last page, and there are no pages exactly when the
\* input is empty.
C7_PageNumbersContiguous ==
    /\ \A i \in 1..Len(pages) : pages[i].page_number = i
    /\ Returned =>
           /\ result.pages = pages
           /\ result.total_pages = Len(result.pages)
           /\ result.pages # <<>> =>
                  result.pages[Len(result.pages)].page_number = result.total_pages
           /\ (result.pages = <<>>) <=> (content_blocks = <<>>)

C7_Witness ==
    /\ Returned
    /\ result.total_pages >= 3
    /\ result.pages[3].page_number = 3

\* C8: one chapter-level heading followed only by other blocks gives exactly
\* one mapping, titled with the heading's text, from page 1 to total_pages,
\* and only page 1 is flagged and titled.
C8_SingleChapter ==
    (/\ Returned
     /\ content_blocks # <<>>
     /\ is_chapter_heading(content_blocks[1])
     /\ \A j \in 2..Len(content_blocks) : ~is_chapter_heading(content_blocks[j]))
    => /\ result.chapters = <<[title |-> content_blocks[1].text,
                               start_page |-> 1,
                               end_page |-> result.total_pages]>>
       /\ result.pages[1].is_chapter_start
       /\ result.pages[1].chapter_title = Some(content_blocks[1].text)
       /\ \A i \in 2..Len(result.pages) :
              /\ ~result.pages[i].is_chapter_start
              /\ result.pages[i].chapter_title = None

C8_Witness ==
    /\ Returned
    /\ content_blocks # <<>>
    /\ is_chapter_heading(content_blocks[1])
    /\ \A j \in 2..Len(content_blocks) : ~is_chapter_heading(content_blocks[j])
    /\ result.total_pages >= 3
    /\ Len(result.chapters) = 1

\* C9 (as claimed): a heading is never the last block of a page when another
\* block follows it in the stream.
C9_HeadingKeptWithNext ==
    \A i \in 1..Len(pages) :
        IsHeadingBlock(pages[i].blocks[Len(pages[i].blocks)])
            => LastPos(pages, i) = Len(content_blocks)

---------------------------------------------------------------------------
(* Height estimation against rendering *)

\* the lines of the drawn text, in drawing order
DrawnLines(page_image) ==
    [k \in 1..Len(page_image.draws) |-> page_image.draws[k].line]

\* the lines estimate_block_height counts for the blocks, block after block
RECURSIVE EstimatedLines(_)
EstimatedLines(blocks) ==
    IF blocks = <<>> THEN <<>>
    ELSE estimate_lines(blocks[1], content_width, base_font_size)
         \o EstimatedLines(Tail(blocks))

\* C10: rendering wraps every block as the estimate did: the distance
\* render_page advances over a page equals the sum of the estimated heights
\* of its blocks (the cursor the paginator accumulated), and the lines drawn
\* are the lines the estimate counted.
C10_RenderMatchesEstimate ==
    /\ pc = "paginate" => current_y = SumEstimated(current_page_blocks)
    /\ \A i \in 1..Len(rendered_pages) :
           /\ rendered_pages[i].y - MARGINS_top
                  = SumEstimated(result.pages[i].blocks)
           /\ DrawnLines(rendered_pages[i])
                  = EstimatedLines(result.pages[i].blocks)

C10_Witness ==
    /\ pc = "rendered"
    /\ Len(rendered_pages) >= 2
    /\ \E i \in 1..Len(rendered_pages) :
           \E k \in 1..Len(result.pages[i].blocks) :
               LET b == result.pages[i].blocks[k]
               IN  /\ b.style.indent > 0
                   /\ Len(wrap_text(b.text, get_font_for_style(b.style, base_font_size),
                                    content_width))
                          < Len(estimate_lines(b, content_width, base_font_size))
    /\ \E i \in 1..Len(rendered_pages) :
           \E k \in 1..Len(result.pages[i].blocks) :
               result.pages[i].blocks[k].style.is_heading

\* C11: every line wrap_text returns is non-empty and measures at most
\* max_width, unless it is a single character (the call itself returns for
\* every text and width: the state with the returned lines is reached).
C11_WrappedLinesFit ==
    wrap_returned # None =>
        \A k \in 1..Len(wrap_returned[1]) :
            LET line == wrap_returned[1][k]
            IN  /\ Len(line) > 0
                /\ \/ measure_text(line, WrapFont) <= wrap_arg_max_width
                   \/ Len(line) = 1

\* a word wider than the budget was broken into pieces, one of them of
\* several characters, and a single glyph wider than the budget was kept
C11_Witness ==
    /\ wrap_returned # None
    /\ \E w \in 1..Len(split(wrap_arg_text)) :
           /\ Len(split(wrap_arg_text)[w]) >= 3
           /\ measure_text(split(wrap_arg_text)[w], WrapFont) > wrap_arg_max_width
    /\ \E k \in 1..Len(wrap_returned[1]) :
           /\ Len(wrap_returned[1][k]) >= 2
           /\ ~(\E j \in 1..Len(wrap_returned[1][k]) : IsSpace(wrap_returned[1][k][j]))
    /\ \E k \in 1..Len(wrap_returned[1]) :
           /\ Len(wrap_returned[1][k]) = 1
           /\ measure_text(wrap_returned[1][k], WrapFont) > wrap_arg_max_width

---------------------------------------------------------------------------
(* Properties of the page encoders, read back with a decoder written from  *)
(* the format description: offsets, rows and columns count from 0.         *)

\* the least k with k * d >= n
CeilDiv(n, d) == CHOOSE k \in 0..n : k * d >= n /\ (k - 1) * d < n

\* little-endian unsigned fields at a byte offset
U16(data, offset) == data[offset + 1] + 256 * data[offset + 2]
U32(data, offset) ==
    data[offset + 1] + 256 * data[offset + 2] + 65536 * data[offset + 3]
    + 16777216 * data[offset + 4]
\* a 64-bit field whose value fits 32 bits; -1 for the others
U64(data, offset) ==
    IF \A k \in 5..8 : data[offset + k] = 0 THEN U32(data, offset) ELSE -1

IsBytes(data) == \A k \in 1..Len(data) : data[k] \in 0..255

\* the byte at an offset, and one of its bits (bit 7 is the most significant)
ByteAt(data, offset) == data[offset + 1]
BitAt(byte, position) == (byte \div (2 ^ position)) % 2

\* the 22-byte page header the format describes
IsPageHeader(blob, mark, width, height, data_size) ==
    /\ Len(blob) >= 22
    /\ U32(blob, 0) = mark
    /\ U16(blob, 4) = width
    /\ U16(blob, 6) = height
    /\ ByteAt(blob, 8) = 0
    /\ ByteAt(blob, 9) = 0
    /\ U32(blob, 10) = data_size
    /\ \A k \in 14..21 : ByteAt(blob, k) = 0

\* the gray level the format assigns to a sample
LevelOf(v) ==
    IF v <= 42 THEN 3 ELSE IF v <= 127 THEN 2 ELSE IF v <= 212 THEN 1 ELSE 0

\* C15: both encoders return 22 + dataSize bytes: the header with the magic,
\* the true width and height, colorMode 0, compression 0, dataSize and a
\* zero reserved field, then dataSize bytes, with dataSize = ceil(w/8) * h
\* for XTG and 2 * w * ceil(h/8) for XTH.
C15_PageBlobLayout ==
    LET w == codec_image.width
        h == codec_image.height
    IN  /\ codec_call = "encode_xtg_page" =>
               /\ IsBytes(codec_returned)
               /\ IsPageHeader(codec_returned, XTG_MARK, w, h, CeilDiv(w, 8) * h)
               /\ Len(codec_returned) = 22 + CeilDiv(w, 8) * h
        /\ codec_call = "encode_xth_page" =>
               /\ IsBytes(codec_returned)
               /\ IsPageHeader(codec_returned, XTH_MARK, w, h,
                               2 * w * CeilDiv(h, 8))
               /\ Len(codec_returned) = 22 + 2 * w * CeilDiv(h, 8)

\* an XTH page whose height is not a multiple of 8 and spans two bytes
C15_Witness ==
    /\ codec_call = "encode_xth_page"
    /\ codec_image.height > 8
    /\ codec_image.height % 8 # 0
    /\ codec_image.width > 1
    /\ Len(codec_returned) > 22

\* C16: in an XTG page the bit of pixel (r, c) is in data byte
\* r * ceil(w/8) + c div 8 at bit position 7 - (c mod 8), it is 1 exactly
\* when the sample is >= 128, and the bits beyond the true width are 0.
C16_XtgRoundTrip ==
    codec_call = "encode_xtg_page" =>
        LET w == codec_image.width
            h == codec_image.height
            bytes_per_row == CeilDiv(w, 8)
        IN  \A r \in 0..(h - 1) : \A c \in 0..(8 * bytes_per_row - 1) :
                BitAt(ByteAt(codec_returned, 22 + r * bytes_per_row + c \div 8),
                      7 - (c % 8))
                = IF c < w /\ codec_image.pixels[r + 1][c + 1] >= 128
                  THEN 1 ELSE 0

\* a white pixel in the second byte of a row of a black page whose width is
\* not a multiple of 8
C16_Witness ==
    /\ codec_call = "encode_xtg_page"
    /\ codec_image.width > 8
    /\ codec_image.width % 8 # 0
    /\ codec_image.height > 1
    /\ \E y \in 1..codec_image.height : \E x \in 9..codec_image.width :
           /\ codec_image.pixels[y][x] >= 128
           /\ codec_image.pixels[y][1] < 128

\* C17: in an XTH page, with H8 = ceil(h/8), the low bit of the level of
\* pixel (y, x) is in data byte (w-1-x) * H8 + y div 8 and the high bit in
\* data byte w * H8 + (w-1-x) * H8 + y div 8, both at bit position
\* 7 - (y mod 8); the padded rows give 0 bits, and a page of level 3 only
\* whose height is a multiple of 8 has only data bytes 0xFF.
C17_XthBitPlanes ==
    codec_call = "encode_xth_page" =>
        LET w == codec_image.width
            h == codec_image.height
            H8 == CeilDiv(h, 8)
        IN  /\ \A x \in 0..(w - 1) : \A y \in 0..(8 * H8 - 1) :
                   LET level == IF y < h
                                THEN LevelOf(codec_image.pixels[y + 1][x + 1])
                                ELSE 0
                       low == ByteAt(codec_returned,
                                     22 + (w - 1 - x) * H8 + y \div 8)
                       high == ByteAt(codec_returned,
                                      22 + w * H8 + (w - 1 - x) * H8 + y \div 8)
                   IN  /\ BitAt(low, 7 - (y % 8)) = level % 2
                       /\ BitAt(high, 7 - (y % 8)) = level \div 2
            /\ (/\ h % 8 = 0
                /\ \A y \in 1..h : \A x \in 1..w :
                       LevelOf(codec_image.pixels[y][x]) = 3)
               => \A k \in 23..Len(codec_returned) : codec_returned[k] = 255

\* a dark-gray pixel (level 2: the planes differ) below the eighth row and
\* off the middle column of a white page
C17_Witness ==
    /\ codec_call = "encode_xth_page"
    /\ codec_image.width > 2
    /\ \E y \in 9..codec_image.height : \E x \in 1..codec_image.width :
           /\ LevelOf(codec_image.pixels[y][x]) = 2
           /\ x # codec_image.width + 1 - x
           /\ LevelOf(codec_image.pixels[1][1]) = 0

\* the golden values of the quantiser
GoldenLevels ==
    (0 :> 3) @@ (42 :> 3) @@ (43 :> 2) @@ (127 :> 2) @@ (128 :> 1)
    @@ (212 :> 1) @@ (213 :> 0) @@ (255 :> 0)

\* C18: quantize_to_4_levels gives 3 for v <= 42, 2 for 43..127, 1 for
\* 128..212 and 0 for v >= 213, the golden values included, and never a
\* higher level for a higher sample.
C18_QuantizeThresholds ==
    codec_call = "quantize_to_4_levels" =>
        LET h == codec_image.height
            w == codec_image.width
        IN  /\ \A y \in 1..h : \A x \in 1..w :
                   LET v == codec_image.pixels[y][x]
                       level == codec_returned[y][x]
                   IN  /\ v <= 42 => level = 3
                       /\ v \in 43..127 => level = 2
                       /\ v \in 128..212 => level = 1
                       /\ v >= 213 => level = 0
                       /\ v \in DOMAIN GoldenLevels => level = GoldenLevels[v]
            /\ \A y1 \in 1..h, y2 \in 1..h : \A x1 \in 1..w, x2 \in 1..w :
                   codec_image.pixels[y1][x1] <= codec_image.pixels[y2][x2]
                   => codec_returned[y1][x1] >= codec_returned[y2][x2]

\* the samples 42 and 43, either side of the first threshold, quantised
C18_Witness ==
    /\ codec_call = "quantize_to_4_levels"
    /\ codec_image.width = 2
    /\ codec_image.pixels[1][1] = 42
    /\ codec_image.pixels[1][2] = 43
    /\ codec_returned = <<<<3, 2>>>>

---------------------------------------------------------------------------
(* Properties of the container, read from the bytes of the output file at  *)
(* the offsets the format gives (counted from 0).                          *)

\* write_xtc_container has returned
Written == writer_pc \in {"written", "read"}

\* the fields of the container header
HeaderVersion(file) == U16(file, 4)
HeaderPageCount(file) == U16(file, 6)
HeaderFlags(file) == U32(file, 8)
HeaderSize(file) == U32(file, 12)
HeaderTocOffset(file) == U32(file, 20)
HeaderPageTableOffset(file) == U64(file, 24)
HeaderDataOffset(file) == U64(file, 32)
HeaderTitleOffset(file) == U32(file, 48)

\* the fields of entry i of the page table
EntryOffset(file, i) == U64(file, HeaderPageTableOffset(file) + 16 * i)
EntrySize(file, i) == U32(file, HeaderPageTableOffset(file) + 16 * i + 8)
EntryWidth(file, i) == U16(file, HeaderPageTableOffset(file) + 16 * i + 12)
EntryHeight(file, i) == U16(file, HeaderPageTableOffset(file) + 16 * i + 14)

\* the bytes of the file in [from, to)
FileRange(file, from, to) == SubSeq(file, from + 1, to)

\* the total size of the blobs lo..hi
RECURSIVE SumSizes(_, _, _)
SumSizes(blobs, lo, hi) ==
    IF lo > hi THEN 0
    ELSE IF lo = hi THEN Len(blobs[lo])
    ELSE LET mid == (lo + hi) \div 2
         IN  SumSizes(blobs, lo, mid) + SumSizes(blobs, mid + 1, hi)

\* C12: the page table is contiguous: the first entry starts at dataOffset,
\* each entry ends where the next starts (so offsets strictly increase),
\* the last entry ends at the end of the file, and the bytes in
\* [offset, offset + size) of entry i are exactly the i-th page blob.
C12_PageTableContiguous ==
    Written =>
        LET file == output_file[1]
            n == Len(book_pages)
        IN  /\ n > 0 => EntryOffset(file, 0) = HeaderDataOffset(file)
            /\ \A i \in 0..(n - 2) :
                   /\ EntryOffset(file, i) + EntrySize(file, i)
                      = EntryOffset(file, i + 1)
                   /\ EntryOffset(file, i) < EntryOffset(file, i + 1)
            /\ n > 0 => EntryOffset(file, n - 1) + EntrySize(file, n - 1)
                        = Len(file)
            /\ \A i \in 0..(n - 1) :
                   FileRange(file, EntryOffset(file, i),
                             EntryOffset(file, i) + EntrySize(file, i))
                   = book_pages[i + 1]

\* a written book of several pages of different sizes
C12_Witness ==
    /\ Written
    /\ Len(book_pages) = 3
    /\ Len(book_pages[1]) # Len(book_pages[2])
    /\ EntryOffset(output_file[1], 2) > EntryOffset(output_file[1], 1)

\* C13: for one page and for more than 1000 pages alike, the page table has
\* as many entries as the header's pageCount and as blobs were supplied,
\* and each entry's width and height are those of the blob's own header.
C13_PageCountsAgree ==
    Written =>
        LET file == output_file[1]
            n == Len(book_pages)
        IN  /\ HeaderPageCount(file) = n
            /\ HeaderDataOffset(file) - HeaderPageTableOffset(file) = 16 * n
            /\ \A i \in 0..(n - 1) :
                   /\ EntryWidth(file, i) = U16(book_pages[i + 1], 4)
                   /\ EntryHeight(file, i) = U16(book_pages[i + 1], 6)

\* a written book of more than 1000 pages, not all of the same width
C13_Witness ==
    /\ Written
    /\ Len(book_pages) > 1000
    /\ HeaderPageCount(output_file[1]) > 1000
    /\ EntryWidth(output_file[1], 0) # EntryWidth(output_file[1], 1)

\* C14: the file is the header in [0, 56), the title in [56, 184), the page
\* table in [184, 184 + 16n) and the blobs in page order; the header holds
\* titleOffset 56, pageTableOffset 184, dataOffset 184 + 16n, version 1,
\* flags 0, headerSize 88, tocOffset 0; the file is 184 + 16n + the sizes of
\* the blobs long.
C14_ContainerLayout ==
    Written =>
        LET file == output_file[1]
            n == Len(book_pages)
            title == encode(book_title)
        IN  /\ Len(file) = 184 + 16 * n + SumSizes(book_pages, 1, n)
            /\ HeaderTitleOffset(file) = 56
            /\ HeaderPageTableOffset(file) = 184
            /\ HeaderDataOffset(file) = 184 + 16 * n
            /\ HeaderVersion(file) = 1
            /\ HeaderFlags(file) = 0
            /\ HeaderSize(file) = 88
            /\ HeaderTocOffset(file) = 0
            /\ \A k \in 1..Len(title) : k <= 127 => ByteAt(file, 56 + k - 1) = title[k]
            /\ \A i \in 0..(n - 1) :
                   /\ U64(file, 184 + 16 * i)
                      = 184 + 16 * n + SumSizes(book_pages, 1, i)
                   /\ U32(file, 184 + 16 * i + 8) = Len(book_pages[i + 1])
                   /\ FileRange(file,
                                184 + 16 * n + SumSizes(book_pages, 1, i),
                                184 + 16 * n + SumSizes(book_pages, 1, i + 1))
                      = book_pages[i + 1]

\* a written grayscale book of two pages with a title of several characters
C14_Witness ==
    /\ Written
    /\ is_grayscale
    /\ Len(book_pages) = 2
    /\ Len(book_title) > 1
    /\ Len(output_file[1]) > 184 + 32

\* C19: the title field is 128 bytes: the first min(len, 127) bytes of the
\* title's UTF-8 encoding, then zero bytes only, at least one of them.
C19_TitleField ==
    Written =>
        LET file == output_file[1]
            title == encode(book_title)
            kept == IF Len(title) < 127 THEN Len(title) ELSE 127
        IN  /\ Len(file) >= 184
            /\ HeaderPageTableOffset(file) - HeaderTitleOffset(file) = 128
            /\ \A k \in 0..127 :
                   ByteAt(file, HeaderTitleOffset(file) + k)
                   = IF k < kept THEN title[k + 1] ELSE 0
            /\ ByteAt(file, HeaderTitleOffset(file) + 127) = 0

\* a title longer than the field, cut inside a character of several bytes
C19_Witness ==
    /\ Written
    /\ Len(encode(book_title)) > 127
    /\ encode(book_title)[127] >= 192
    /\ ByteAt(output_file[1], 56 + 126) >= 192

\* C20: read_xtc_info on the written file returns the format XTCH exactly
\* when is_grayscale and XTC otherwise, version 1, the number of pages
\* written, and the written title whenever its encoding has at most 127
\* bytes and no NUL.
C20_InfoRoundTrip ==
    writer_pc = "read" =>
        LET info == xtc_info[1]
            title == encode(book_title)
        IN  /\ info.format = IF is_grayscale THEN "XTCH" ELSE "XTC"
            /\ info.version = 1
            /\ info.pages = Len(book_pages)
            /\ (Len(title) <= 127 /\ \A k \in 1..Len(title) : title[k] # 0)
               => info.title = book_title

\* a grayscale book read back whose title fills the field to the last byte
\* and ends with a character of four bytes
C20_Witness ==
    /\ writer_pc = "read"
    /\ is_grayscale
    /\ Len(encode(book_title)) = 127
    /\ book_title[Len(book_title)] > 65535
    /\ xtc_info[1].title = book_title
    /\ xtc_info[1].format = "XTCH"

---------------------------------------------------------------------------
(* Further properties of paginate *)

\* font_size * 1.4 rounded to the nearest integer (14 * font_size is even,
\* so there are no ties)
RoundedLineHeight(font_size) == (font_size * 14 + 5) \div 10

\* C25 (as claimed): the height paginate adds for a block is
\* lineCount * lineHeight + 16 with lineHeight = round(fontSize * 1.4), the
\* font size being the heading-table size for heading levels 1..6 and the
\* base size otherwise (48 for the base size 34): the pen position is the
\* sum of these heights over the blocks of the page under construction.
C25_RoundedBlockHeight ==
    pc = "paginate" =>
        current_y =
            LET RECURSIVE Claimed(_)
                Claimed(blocks) ==
                    IF blocks = <<>> THEN 0
                    ELSE Len(estimate_lines(blocks[1], content_width,
                                            base_font_size))
                         * RoundedLineHeight(
                               get_font_size_for_style(blocks[1].style,
                                                       base_font_size))
                         + 16 + Claimed(Tail(blocks))
            IN  Claimed(current_page_blocks)

\* the m-th chapter-level heading of the stream (its position)
NthChapterHeading(m) ==
    CHOOSE j \in 1..Len(content_blocks) :
        /\ is_chapter_heading(content_blocks[j])
        /\ Cardinality({k \in 1..j : is_chapter_heading(content_blocks[k])}) = m

\* C26 (as claimed): every chapter-level heading yields exactly one mapping,
\* titled with the heading's text, in stream order; there are as many
\* mappings as chapter-level headings.
C26_OneMappingPerHeading ==
    Returned =>
        LET headings == {j \in 1..Len(content_blocks) :
                             is_chapter_heading(content_blocks[j])}
        IN  /\ Len(result.chapters) = Cardinality(headings)
            /\ \A m \in 1..Len(result.chapters) :
                   m <= Cardinality(headings) =>
                       result.chapters[m].title
                       = content_blocks[NthChapterHeading(m)].text

\* C27 (as claimed): a page whose blocks precede the first chapter-level
\* heading (or of a book without one) is not flagged is_chapter_start and
\* carries no chapter_title.
C27_NoChapterNoFlag ==
    Returned =>
        \A i \in 1..Len(result.pages) :
            ChapterHeadingBefore(LastPos(result.pages, i)) = 0 =>
                /\ ~result.pages[i].is_chapter_start
                /\ result.pages[i].chapter_title = None

---------------------------------------------------------------------------
(* Further properties of wrap_text *)

\* the characters of a string that are not whitespace, in order
NonBlank(str) == SelectSeq(str, LAMBDA c : ~IsSpace(c))

\* the non-blank characters of the lines, line after line
RECURSIVE NonBlankOfLines(_)
NonBlankOfLines(lines) ==
    IF lines = <<>> THEN <<>>
    ELSE NonBlank(lines[1]) \o NonBlankOfLines(Tail(lines))

\* C28 (as claimed): wrap_text loses no text: the returned lines with the
\* blanks removed, concatenated, are the input text with its whitespace
\* removed, for every max_width, also one smaller than a character.
C28_NoTextLost ==
    wrap_returned # None =>
        NonBlankOfLines(wrap_returned[1]) = NonBlank(wrap_arg_text)

---------------------------------------------------------------------------
(* Further properties of the container writer *)

\* C23 (as claimed): the output path never holds a partial container: at
\* every step of write_xtc_container it is either unchanged (here: absent,
\* as before the call) or holds the complete file, header, title field,
\* page table and every page.
C23_OutputNeverPartial ==
    output_file # None =>
        LET file == output_file[1]
            n == Len(book_pages)
        IN  /\ Len(file) = 184 + 16 * n + SumSizes(book_pages, 1, n)
            /\ HeaderPageCount(file) = n

---------------------------------------------------------------------------
(* Properties of read_xtc_info on damaged files *)

\* read_xtc_info has returned or raised
ReadOver == writer_pc \in {"read", "read_raised"}

\* read_xtc_info failed and returned no info record
ReadFailed == writer_pc = "read_raised" /\ xtc_info = None

\* C21 (as claimed): read_xtc_info fails, and returns no info record,
\* whenever the 4-byte magic of the file is neither the XTC nor the XTCH
\* marker.
C21_ForeignMagicFails ==
    (/\ ReadOver
     /\ Len(output_file[1]) >= 4
     /\ U32(output_file[1], 0) \notin {XTC_MARK, XTCH_MARK})
    => ReadFailed

\* the file lacks part of its header or title, or part of the page table
\* its header announces, or a table entry does not end where the next
\* starts (the last: at the end of the file)
IsDamaged(file) ==
    \/ Len(file) < 56 + 128
    \/ Len(file) < 184 + 16 * HeaderPageCount(file)
    \/ \E i \in 0..(HeaderPageCount(file) - 1) :
           U32(file, 184 + 16 * i) + U32(file, 184 + 16 * i + 8)
           # IF i = HeaderPageCount(file) - 1 THEN Len(file)
             ELSE U32(file, 184 + 16 * (i + 1))

\* C22 (as claimed): read_xtc_info fails, and returns no info, for every
\* file shorter than the 56-byte header plus the 128-byte title, with a
\* truncated page table, or with recorded sizes inconsistent with the
\* length of the file.
C22_DamagedFileFails ==
    (ReadOver /\ IsDamaged(output_file[1])) => ReadFailed

---------------------------------------------------------------------------
(* Properties of the converter *)

\* the encoded pages of a book, in page-number order
AllBlobs(book) ==
    [i \in 1..Len(book.images) |->
        EncodePage(book.images[i], output_format = "xtch")]

\* the file at the k-th output path is as it was before the batch
Untouched(k) == out_files[k] \in {None, Some(StaleFile)}

\* C24: write_xtc_container is reached only with every page of the book
\* rendered and encoded, the blobs in page-number order; an output path
\* that was written holds the container of all the pages of its book; and
\* the output path of a book one of whose pages fails is left as it was.
C24_PageFailureWritesNothing ==
    /\ (batch_pc = "render" /\ page_index = Len(CurrentBook.images))
       => page_blobs = AllBlobs(CurrentBook)
    /\ \A k \in 1..Len(epub_files) :
           /\ ~Untouched(k) =>
                  out_files[k] = Some(ContainerFile(AllBlobs(epub_files[k]),
                                                    epub_files[k].title,
                                                    output_format = "xtch"))
           /\ epub_files[k].raises = "page" => Untouched(k)

\* a batch is over in which the second page of one book failed, leaving the
\* stale file at its path, and a two-page book was written
C24_Witness ==
    /\ batch_pc = "done"
    /\ \E k \in 1..Len(epub_files) :
           /\ epub_files[k].raises = "page"
           /\ epub_files[k].raising_page = 2
           /\ out_files[k] = Some(StaleFile)
    /\ \E k \in 1..Len(epub_files) :
           /\ epub_files[k].raises = "none"
           /\ Len(epub_files[k].images) = 2
           /\ ~Untouched(k)
           /\ HeaderPageCount(out_files[k][1]) = 2

\* the "Converting" lines printed so far
Attempts == SelectSeq(printed, LAMBDA line : line[1] = "Converting")

\* among the first k inputs, those whose conversion raises nothing
Completed(k) == {j \in 1..k : epub_files[j].raises = "none"}

RECURSIVE PagesOfCompleted(_)
PagesOfCompleted(k) ==
    IF k = 0 THEN 0
    ELSE PagesOfCompleted(k - 1)
         + (IF k \in Completed(k) THEN Len(epub_files[k].images) ELSE 0)

RECURSIVE ChaptersOfCompleted(_)
ChaptersOfCompleted(k) ==
    IF k = 0 THEN 0
    ELSE ChaptersOfCompleted(k - 1)
         + (IF k \in Completed(k) THEN epub_files[k].chapters ELSE 0)

\* C30: between two iterations of the batch loop the inputs attempted so
\* far are the first file_index ones, each once and in order, whatever
\* failed; when the loop is over every input has been attempted; and the
\* counters are those of the conversions that raised nothing.
C30_BatchGoesOn ==
    batch_pc \in {"loop", "done"} =>
        /\ Attempts = [k \in 1..file_index |-> <<"Converting", k>>]
        /\ batch_pc = "done" => file_index = Len(epub_files)
        /\ total_stats.files = Cardinality(Completed(file_index))
        /\ total_stats.pages = PagesOfCompleted(file_index)
        /\ total_stats.chapters = ChaptersOfCompleted(file_index)

\* a batch is over whose first conversion failed at a page and whose second,
\* of two pages, was counted
C30_Witness ==
    /\ batch_pc = "done"
    /\ Len(epub_files) = 2
    /\ epub_files[1].raises = "page"
    /\ epub_files[2].raises = "none"
    /\ total_stats = [pages |-> 2, chapters |-> 2, files |-> 1]
    /\ Attempts = <<<<"Converting", 1>>, <<"Converting", 2>>>>

---------------------------------------------------------------------------
(* Properties of HTMLContentParser *)

\* the number of script, style, head and title elements open
OpenIgnored ==
    Len(SelectSeq(OpenElements(fed_events),
                  LAMBDA tag : tag \in {"script", "style", "head", "title"}))

\* C29 (as claimed): in a well-nested document, whenever no script, style,
\* head or title element is open, in_ignored is 0, and text data arriving
\* then is appended to the current text, meta and link start tags without
\* end tags notwithstanding.
C29_IgnoredReturnsToZero ==
    (parsed = None /\ OpenIgnored = 0) =>
        /\ in_ignored = 0
        /\ (fed_events # <<>> /\ fed_events[Len(fed_events)].kind = "data") =>
               /\ current_text # <<>>
               /\ current_text[Len(current_text)] = "x"

====
